---- MODULE Spec2Model ----
(***************************************************************************)
(* Front end of the lua-typed compiler: tokenize (lexer) followed by parse *)
(* (Pratt expression parser + recursive-descent statement/type parser).    *)
(* The parser is modelled as a machine with an explicit call stack: one    *)
(* frame per active C function, one action per continuation point.         *)
(***************************************************************************)
EXTENDS Integers, Sequences, FiniteSets, TLC

(***************************************************************************)
(* Bounds of the model.                                                    *)
(***************************************************************************)
MaxLen == 3   \* longest enumerated token sequence (before EOF)
MaxSrc == 3   \* longest enumerated source text (before NUL)
MaxVec == 6   \* growable lists are kept up to this length
MaxDepth == 24 \* frames the C stack holds
MaxBlocks == 3 \* most arena blocks followed at one time
MaxBytes == 2 \* longest byte buffer handed to pool_intern

(***************************************************************************)
(* Token kinds (token_kind_str lists the enumerators).                     *)
(***************************************************************************)
TokenKinds ==
  { "TOKEN_EOF", "TOKEN_ERROR", "TOKEN_IDENTIFIER", "TOKEN_STRING", "TOKEN_NUMBER",
    "TOKEN_LOCAL", "TOKEN_FUNCTION", "TOKEN_STRUCT", "TOKEN_TRAIT", "TOKEN_IMPL",
    "TOKEN_RETURN", "TOKEN_IF", "TOKEN_THEN", "TOKEN_ELSE", "TOKEN_ELSEIF",
    "TOKEN_END", "TOKEN_WHILE", "TOKEN_DO", "TOKEN_REPEAT", "TOKEN_UNTIL",
    "TOKEN_FOR", "TOKEN_IN", "TOKEN_BREAK", "TOKEN_NIL", "TOKEN_TRUE",
    "TOKEN_FALSE", "TOKEN_AND", "TOKEN_OR", "TOKEN_NOT", "TOKEN_TYPE",
    "TOKEN_LPAREN", "TOKEN_RPAREN", "TOKEN_LBRACE", "TOKEN_RBRACE",
    "TOKEN_LBRACK", "TOKEN_RBRACK", "TOKEN_COMMA", "TOKEN_DOT", "TOKEN_COLON",
    "TOKEN_SEMICOLON", "TOKEN_PLUS", "TOKEN_MINUS", "TOKEN_STAR", "TOKEN_SLASH",
    "TOKEN_PERCENT", "TOKEN_CARET", "TOKEN_HASH", "TOKEN_EQ", "TOKEN_EQ_EQ",
    "TOKEN_NOT_EQ", "TOKEN_LT", "TOKEN_LTEQ", "TOKEN_GT", "TOKEN_GTEQ",
    "TOKEN_DOT_DOT", "TOKEN_DOT_DOT_DOT", "TOKEN_PIPE" }

Token(kind, text) == [kind |-> kind, text |-> text, line |-> 1]

(***************************************************************************)
(* Precedence levels (enum Precedence).                                    *)
(***************************************************************************)
PREC_NONE == 0
PREC_OR == 1
PREC_AND == 2
PREC_COMPARISON == 3
PREC_CONCAT == 4
PREC_TERM == 5
PREC_FACTOR == 6
PREC_UNARY == 7
PREC_POW == 8
PREC_CALL == 9
PREC_PRIMARY == 10

(***************************************************************************)
(* BinaryOp and UnaryOp enumerators, by value.                             *)
(***************************************************************************)
OP_ADD == 0
OP_SUB == 1
OP_MUL == 2
OP_DIV == 3
OP_MOD == 4
OP_POW == 5
OP_CONCAT == 6
OP_EQ == 7
OP_NEQ == 8
OP_LT == 9
OP_LTE == 10
OP_GT == 11
OP_GTE == 12
OP_AND == 13
OP_OR == 14

OP_NEGATE == 0
OP_NOT == 1
OP_LEN == 2

ParseRule(prefix, infix, precedence) ==
  [prefix |-> prefix, infix |-> infix, precedence |-> precedence]

\* rules[]: entries without a designator are zero-initialised.
rules(kind) ==
  CASE kind = "TOKEN_LPAREN"      -> ParseRule("grouping", "call", PREC_CALL)
    [] kind = "TOKEN_LBRACE"      -> ParseRule("NULL", "struct_init", PREC_CALL)
    [] kind = "TOKEN_LBRACK"      -> ParseRule("NULL", "array", PREC_CALL)
    [] kind = "TOKEN_DOT"         -> ParseRule("NULL", "field", PREC_CALL)
    [] kind = "TOKEN_MINUS"       -> ParseRule("unary", "binary", PREC_TERM)
    [] kind = "TOKEN_PLUS"        -> ParseRule("NULL", "binary", PREC_TERM)
    [] kind = "TOKEN_SLASH"       -> ParseRule("NULL", "binary", PREC_FACTOR)
    [] kind = "TOKEN_STAR"        -> ParseRule("NULL", "binary", PREC_FACTOR)
    [] kind = "TOKEN_PERCENT"     -> ParseRule("NULL", "binary", PREC_FACTOR)
    [] kind = "TOKEN_CARET"       -> ParseRule("NULL", "binary", PREC_POW)
    [] kind = "TOKEN_DOT_DOT"     -> ParseRule("NULL", "binary", PREC_CONCAT)
    [] kind = "TOKEN_NUMBER"      -> ParseRule("number", "NULL", PREC_NONE)
    [] kind = "TOKEN_STRING"      -> ParseRule("string", "NULL", PREC_NONE)
    [] kind = "TOKEN_IDENTIFIER"  -> ParseRule("variable", "NULL", PREC_NONE)
    [] kind = "TOKEN_NIL"         -> ParseRule("literal", "NULL", PREC_NONE)
    [] kind = "TOKEN_TRUE"        -> ParseRule("literal", "NULL", PREC_NONE)
    [] kind = "TOKEN_FALSE"       -> ParseRule("literal", "NULL", PREC_NONE)
    [] kind = "TOKEN_DOT_DOT_DOT" -> ParseRule("literal", "NULL", PREC_NONE)
    [] kind = "TOKEN_NOT"         -> ParseRule("unary", "NULL", PREC_NONE)
    [] kind = "TOKEN_HASH"        -> ParseRule("unary", "NULL", PREC_NONE)
    [] kind = "TOKEN_EQ_EQ"       -> ParseRule("NULL", "binary", PREC_COMPARISON)
    [] kind = "TOKEN_NOT_EQ"      -> ParseRule("NULL", "binary", PREC_COMPARISON)
    [] kind = "TOKEN_LT"          -> ParseRule("NULL", "binary", PREC_COMPARISON)
    [] kind = "TOKEN_GT"          -> ParseRule("NULL", "binary", PREC_COMPARISON)
    [] kind = "TOKEN_LTEQ"        -> ParseRule("NULL", "binary", PREC_COMPARISON)
    [] kind = "TOKEN_GTEQ"        -> ParseRule("NULL", "binary", PREC_COMPARISON)
    [] kind = "TOKEN_AND"         -> ParseRule("NULL", "binary", PREC_AND)
    [] kind = "TOKEN_OR"          -> ParseRule("NULL", "binary", PREC_OR)
    [] OTHER                      -> ParseRule("NULL", "NULL", PREC_NONE)

prec_rule(kind) == rules(kind)

get_binary_op(kind) ==
  CASE kind = "TOKEN_PLUS"    -> OP_ADD
    [] kind = "TOKEN_MINUS"   -> OP_SUB
    [] kind = "TOKEN_STAR"    -> OP_MUL
    [] kind = "TOKEN_SLASH"   -> OP_DIV
    [] kind = "TOKEN_PERCENT" -> OP_MOD
    [] kind = "TOKEN_CARET"   -> OP_POW
    [] kind = "TOKEN_DOT_DOT" -> OP_CONCAT
    [] kind = "TOKEN_EQ"      -> OP_EQ
    [] kind = "TOKEN_NOT_EQ"  -> OP_NEQ
    [] kind = "TOKEN_LT"      -> OP_LT
    [] kind = "TOKEN_LTEQ"    -> OP_LTE
    [] kind = "TOKEN_GT"      -> OP_GT
    [] kind = "TOKEN_GTEQ"    -> OP_GTE
    [] kind = "TOKEN_AND"     -> OP_AND
    [] kind = "TOKEN_OR"      -> OP_OR
    [] OTHER                  -> -1

get_unary_op(kind) ==
  CASE kind = "TOKEN_MINUS" -> OP_NEGATE
    [] kind = "TOKEN_NOT"   -> OP_NOT
    [] kind = "TOKEN_HASH"  -> OP_LEN
    [] OTHER                -> -1

is_block_end(kind) ==
  \/ kind = "TOKEN_END"
  \/ kind = "TOKEN_ELSE"
  \/ kind = "TOKEN_ELSEIF"
  \/ kind = "TOKEN_UNTIL"
  \/ kind = "TOKEN_EOF"

(***************************************************************************)
(* AST nodes.  A node is a record carrying the C kind tag and the fields   *)
(* of the union member in use; NULL is the null pointer.                   *)
(***************************************************************************)
NULL == [kind |-> "NULL"]

(***************************************************************************)
(* Texts are sequences of one-character strings.  strtod converts a        *)
(* lexeme `digits [. digits]` to its value, held exactly as                *)
(* mant / 10^scale with no trailing zero in the fraction.                  *)
(***************************************************************************)
Digit(c) ==
  CASE c = "0" -> 0 [] c = "1" -> 1 [] c = "2" -> 2 [] c = "3" -> 3 [] c = "4" -> 4
    [] c = "5" -> 5 [] c = "6" -> 6 [] c = "7" -> 7 [] c = "8" -> 8 [] c = "9" -> 9
    [] OTHER -> -1

isdigit(c) == Digit(c) >= 0

RECURSIVE DecAcc(_, _, _, _, _)
DecAcc(text, i, mant, scale, seenDot) ==
  IF i > Len(text) THEN [mant |-> mant, scale |-> scale]
  ELSE IF isdigit(text[i])
       THEN DecAcc(text, i + 1, mant * 10 + Digit(text[i]),
                   IF seenDot THEN scale + 1 ELSE scale, seenDot)
       ELSE IF text[i] = "." /\ ~seenDot
            THEN DecAcc(text, i + 1, mant, scale, TRUE)
            ELSE [mant |-> mant, scale |-> scale]

RECURSIVE Normal(_)
Normal(d) ==
  IF d.scale > 0 /\ d.mant % 10 = 0
  THEN Normal([mant |-> d.mant \div 10, scale |-> d.scale - 1])
  ELSE d

strtod(text) == Normal(DecAcc(text, 1, 0, 0, FALSE))

(***************************************************************************)
(* State.                                                                  *)
(***************************************************************************)
VARIABLES
  source,   \* the source text handed to tokenize, without its NUL; NoSource if none
  s,        \* Scanner {start, current, line}; offsets into source, from 0
  tokens,   \* the token vector; <<>> is the null vector
  status,   \* "lexing", "ready", "parsing", "done", "crashed"; "arena" and
            \* "callers" while the memory calls are exercised on their own
  p,        \* Parser {current, panic_mode, had_error} and the diagnostics written
  slot,     \* kind found in tokens[count], the slot after the last token, once read
  stack,    \* call stack of the parser, innermost frame first
  ret,      \* value returned by the call that finished last
  result,   \* ParseResult {root, success}
  arena,    \* MemArena {capacity, pos}
  pool,     \* StringPool {capacity, buckets}; a bucket is its chain of entries
  heap,     \* the strings written into arena blocks, by block offset
  out,      \* the last memory call: {op, arg, old_pos, ptr}
  blocks,   \* the blocks handed out and not yet rewound: {base, size}
  interned  \* the pool_intern calls that returned: {bytes, ptr, again}

\* the memory of the program
mvars == <<arena, pool, heap, out, blocks, interned>>

vars == <<source, s, tokens, status, p, slot, stack, ret, result, mvars>>

count == Len(tokens)

(***************************************************************************)
(* Parser primitives.  The cursor p.current counts from 0 as in C, so      *)
(* tokens[p.current] of the C code is tokens[p.current + 1] here.          *)
(***************************************************************************)
peek(q) ==
  IF q.current < count THEN tokens[q.current + 1]
  ELSE Token(slot, <<"?">>)

previous(q) == tokens[q.current]

error_at(q, t, msg) ==
  IF q.panic_mode THEN q
  ELSE [q EXCEPT !.panic_mode = TRUE, !.had_error = TRUE,
                 !.diags = Append(@, [text |-> t.text, msg |-> msg])]

advance(q) ==
  IF q.current < count THEN [q EXCEPT !.current = @ + 1] ELSE q

consume(q, expected, msg) ==
  IF peek(q).kind = expected THEN advance(q)
  ELSE error_at(q, peek(q), msg)

check(q, expected) == peek(q).kind = expected

\* match returns check(q, expected) and leaves the parser as matched(q, expected)
matched(q, expected) == IF check(q, expected) THEN advance(q) ELSE q

\* vec_push on a transient list
vec_push(list, x) == IF Len(list) < MaxVec THEN Append(list, x) ELSE list

(***************************************************************************)
(* Expression nodes (new_expr and the prefix parselets that do not         *)
(* recurse).                                                               *)
(***************************************************************************)
number(q) == [kind |-> "EXPR_NUMBER", number |-> strtod(previous(q).text)]

string(q) == [kind |-> "EXPR_STRING", string |-> previous(q).text]

literal(q) ==
  CASE previous(q).kind = "TOKEN_NIL"         -> [kind |-> "EXPR_NIL"]
    [] previous(q).kind = "TOKEN_TRUE"        -> [kind |-> "EXPR_BOOL", boolean |-> TRUE]
    [] previous(q).kind = "TOKEN_FALSE"       -> [kind |-> "EXPR_BOOL", boolean |-> FALSE]
    [] previous(q).kind = "TOKEN_DOT_DOT_DOT" -> [kind |-> "EXPR_VARARG"]
    [] OTHER                                  -> NULL

variable(q) == [kind |-> "EXPR_VARIABLE", variable |-> previous(q).text]

Binary(op, left, right) ==
  [kind |-> "EXPR_BINARY", op |-> op, left |-> left, right |-> right]

Unary(op, operand) == [kind |-> "EXPR_UNARY", op |-> op, operand |-> operand]

(***************************************************************************)
(* The call stack.  A frame is {fn, pc, l}: the C function, the point at   *)
(* which it continues, and its parameters and locals.                      *)
(***************************************************************************)
Frame(fn, l) == [fn |-> fn, pc |-> "start", l |-> l]

\* a frame that has not yet set a local
NoLocals == [list |-> <<>>]

Top == Head(stack)

\* the machine is inside fn at pc, and tokens[p.current] can be read
At(fn, pc) ==
  /\ status = "parsing"
  /\ p.current < count \/ slot # "unread"
  /\ stack # <<>>
  /\ Top.fn = fn
  /\ Top.pc = pc

\* continue in the same function
Goto(pc, l, q) ==
  /\ stack' = <<[Top EXCEPT !.pc = pc, !.l = l]>> \o Tail(stack)
  /\ p' = q
  /\ ret' = NULL
  /\ UNCHANGED <<source, s, tokens, status, slot, result, mvars>>

\* call callee; the caller continues at pc when it returns.  A call that
\* finds the C stack full ends the run.
Call(pc, l, q, callee) ==
  /\ IF Len(stack) < MaxDepth
     THEN /\ stack' = <<callee, [Top EXCEPT !.pc = pc, !.l = l]>> \o Tail(stack)
          /\ p' = q
          /\ UNCHANGED status
     ELSE /\ status' = "crashed"
          /\ UNCHANGED <<stack, p>>
  /\ ret' = NULL
  /\ UNCHANGED <<source, s, tokens, slot, result, mvars>>

\* return val to the caller
Return(q, val) ==
  /\ stack' = Tail(stack)
  /\ p' = q
  /\ ret' = val
  /\ UNCHANGED <<source, s, tokens, status, slot, result, mvars>>

\* a call through a null function pointer
Crash ==
  /\ status' = "crashed"
  /\ UNCHANGED <<source, s, tokens, p, slot, stack, ret, result, mvars>>

parse_expression == Frame("parse_precedence", [precedence |-> PREC_OR])

(***************************************************************************)
(* parse_precedence                                                        *)
(***************************************************************************)
parse_precedence_start ==
  /\ At("parse_precedence", "start")
  /\ LET q == advance(p)
         prefix == prec_rule(previous(q).kind).prefix
         l == Top.l
     IN CASE prefix = "NULL" ->
               Return(error_at(q, previous(q), "Expected expression."), NULL)
          [] prefix = "number" ->
               Goto("loop", [precedence |-> l.precedence, left |-> number(q)], q)
          [] prefix = "string" ->
               Goto("loop", [precedence |-> l.precedence, left |-> string(q)], q)
          [] prefix = "literal" ->
               Goto("loop", [precedence |-> l.precedence, left |-> literal(q)], q)
          [] prefix = "variable" ->
               Goto("loop", [precedence |-> l.precedence, left |-> variable(q)], q)
          [] prefix = "grouping" ->
               Call("after_prefix", l, q, Frame("grouping", [e |-> NULL]))
          [] prefix = "unary" ->
               Call("after_prefix", l, q,
                    Frame("unary", [op_token |-> previous(q).kind]))

parse_precedence_after_prefix ==
  /\ At("parse_precedence", "after_prefix")
  /\ Goto("loop", [precedence |-> Top.l.precedence, left |-> ret], p)

\* field does not recurse: it runs inside the step that calls it
field(q, left) ==
  LET q1 == consume(q, "TOKEN_IDENTIFIER", "Expected field name.")
  IN [q |-> q1,
      e |-> [kind |-> "EXPR_FIELD", target |-> left, field |-> previous(q1).text]]

parse_precedence_loop ==
  /\ At("parse_precedence", "loop")
  /\ LET l == Top.l
     IN IF l.precedence <= prec_rule(peek(p).kind).precedence
        THEN LET q == advance(p)
                 infix == prec_rule(previous(q).kind).infix
             IN CASE infix = "NULL" -> Crash
                  [] infix = "field" ->
                       Goto("loop", [l EXCEPT !.left = field(q, l.left).e],
                            field(q, l.left).q)
                  [] infix = "binary" ->
                       Call("after_infix", l, q,
                            Frame("binary", [left |-> l.left,
                                             op_token |-> previous(q).kind]))
                  [] infix \in {"call", "array", "struct_init"} ->
                       Call("after_infix", l, q,
                            Frame(infix, [left |-> l.left, list |-> <<>>, key |-> NULL]))
        ELSE Return(p, l.left)

parse_precedence_after_infix ==
  /\ At("parse_precedence", "after_infix")
  /\ Goto("loop", [Top.l EXCEPT !.left = ret], p)

(***************************************************************************)
(* grouping, unary, binary                                                 *)
(***************************************************************************)
grouping_start ==
  /\ At("grouping", "start")
  /\ Call("after_expr", Top.l, p, parse_expression)

grouping_after_expr ==
  /\ At("grouping", "after_expr")
  /\ Return(consume(p, "TOKEN_RPAREN", "Expected ')' after expression."), ret)

\* unary with its operand read as a full expression
unary_start_full_expression ==
  /\ At("unary", "start")
  /\ Call("after_operand", Top.l, p, parse_expression)

unary_start ==
  /\ At("unary", "start")
  /\ Call("after_operand", Top.l, p,
          Frame("parse_precedence", [precedence |-> PREC_UNARY]))

unary_after_operand ==
  /\ At("unary", "after_operand")
  /\ Return(p, Unary(get_unary_op(Top.l.op_token), ret))

\* precedence binary passes on for its right operand
binary_next_prec(op_token) ==
  IF op_token # "TOKEN_CARET" /\ op_token # "TOKEN_DOT_DOT"
  THEN prec_rule(op_token).precedence + 1
  ELSE prec_rule(op_token).precedence

binary_start ==
  /\ At("binary", "start")
  /\ Call("after_right", Top.l, p,
          Frame("parse_precedence",
                [precedence |-> binary_next_prec(Top.l.op_token)]))

binary_after_right ==
  /\ At("binary", "after_right")
  /\ Return(p, Binary(get_binary_op(Top.l.op_token), Top.l.left, ret))

(***************************************************************************)
(* call, array, struct_init                                                *)
(***************************************************************************)
call_finish(q, l) ==
  Return(consume(q, "TOKEN_RPAREN", "Expected ')' after call arguments."),
         [kind |-> "EXPR_CALL", callee |-> l.left, args |-> l.list])

call_start ==
  /\ At("call", "start")
  /\ IF ~check(p, "TOKEN_RPAREN") /\ ~check(p, "TOKEN_EOF")
     THEN Call("after_arg", Top.l, p, parse_expression)
     ELSE call_finish(p, Top.l)

call_after_arg ==
  /\ At("call", "after_arg")
  /\ LET l == [Top.l EXCEPT !.list = vec_push(@, ret)]
     IN IF check(p, "TOKEN_COMMA")
        THEN Goto("start", l, matched(p, "TOKEN_COMMA"))
        ELSE call_finish(p, l)

array_start ==
  /\ At("array", "start")
  /\ Call("after_index", Top.l, p, parse_expression)

array_after_index ==
  /\ At("array", "after_index")
  /\ Return(consume(p, "TOKEN_RBRACK", "Expected ']' after array index."),
            [kind |-> "EXPR_INDEX", target |-> Top.l.left, index |-> ret])

struct_init_finish(q, l) ==
  Return(consume(q, "TOKEN_RBRACE", "Expected '}' after struct init"),
         [kind |-> "EXPR_STRUCT", name |-> l.left, entries |-> l.list])

struct_init_start ==
  /\ At("struct_init", "start")
  /\ IF ~check(p, "TOKEN_RBRACE") /\ ~check(p, "TOKEN_EOF")
     THEN Call("after_key", Top.l, p, parse_expression)
     ELSE struct_init_finish(p, Top.l)

struct_init_after_key ==
  /\ At("struct_init", "after_key")
  /\ Call("after_value", [Top.l EXCEPT !.key = ret],
          consume(p, "TOKEN_COLON", "Expected ':' after field name."),
          parse_expression)

struct_init_after_value ==
  /\ At("struct_init", "after_value")
  /\ LET l == [Top.l EXCEPT !.list = vec_push(@, [key |-> Top.l.key, value |-> ret])]
     IN IF check(p, "TOKEN_COMMA")
        THEN Goto("start", l, matched(p, "TOKEN_COMMA"))
        ELSE struct_init_finish(p, l)

ExprNext ==
  \/ parse_precedence_start
  \/ parse_precedence_after_prefix
  \/ parse_precedence_loop
  \/ parse_precedence_after_infix
  \/ grouping_start
  \/ grouping_after_expr
  \/ unary_start
  \/ unary_after_operand
  \/ binary_start
  \/ binary_after_right
  \/ call_start
  \/ call_after_arg
  \/ array_start
  \/ array_after_index
  \/ struct_init_start
  \/ struct_init_after_key
  \/ struct_init_after_value

(***************************************************************************)
(* parse_type                                                              *)
(***************************************************************************)
PrimitiveType(name) ==
  CASE name = <<"v", "o", "i", "d">>           -> "TYPE_VOID"
    [] name = <<"n", "i", "l">>                -> "TYPE_NIL"
    [] name = <<"b", "o", "o", "l">>           -> "TYPE_BOOL"
    [] name = <<"n", "u", "m", "b", "e", "r">> -> "TYPE_NUMBER"
    [] name = <<"s", "t", "r", "i", "n", "g">> -> "TYPE_STRING"
    [] OTHER                                   -> "TYPE_STRUCT"

UserType(name, args) == [kind |-> "TYPE_STRUCT", name |-> name, args |-> args]

parse_type_start ==
  /\ At("parse_type", "start")
  /\ CASE peek(p).kind = "TOKEN_LBRACK" ->
            Call("after_inner", Top.l, advance(p), Frame("parse_type", NoLocals))
       [] peek(p).kind = "TOKEN_FUNCTION" ->
            Call("after_sig", Top.l, advance(p), Frame("parse_func_signature", NoLocals))
       [] peek(p).kind = "TOKEN_IDENTIFIER" ->
            LET q == advance(p)
                name == previous(q).text
            IN IF PrimitiveType(name) # "TYPE_STRUCT"
               THEN Return(q, [kind |-> PrimitiveType(name)])
               ELSE IF check(q, "TOKEN_LT")
                    THEN Call("after_arg", [list |-> <<>>, name |-> name],
                              matched(q, "TOKEN_LT"),
                              Frame("parse_type", NoLocals))
                    ELSE Return(q, UserType(name, <<>>))
       [] OTHER -> Return(error_at(p, peek(p), "Expected type."), NULL)

parse_type_after_inner ==
  /\ At("parse_type", "after_inner")
  /\ Return(consume(p, "TOKEN_RBRACK", "Expected ']' after array type."),
            [kind |-> "TYPE_ARRAY", inner |-> ret])

parse_type_after_sig ==
  /\ At("parse_type", "after_sig")
  /\ Return(p, [kind |-> "TYPE_FUNCTION", sig |-> ret])

parse_type_after_arg ==
  /\ At("parse_type", "after_arg")
  /\ LET l == [Top.l EXCEPT !.list = vec_push(@, ret)]
     IN IF check(p, "TOKEN_COMMA")
        THEN Call("after_arg", l, matched(p, "TOKEN_COMMA"),
                  Frame("parse_type", NoLocals))
        ELSE Return(consume(p, "TOKEN_GT", "Expected '>' after type arguments."),
                    UserType(l.name, l.list))

(***************************************************************************)
(* parse_generic, parse_param, parse_generics, parse_func_signature        *)
(***************************************************************************)
GenericParam(name, constraints) == [name |-> name, constraints |-> constraints]

Param(name, type) == [name |-> name, type |-> type]

parse_generic_start ==
  /\ At("parse_generic", "start")
  /\ LET q == consume(p, "TOKEN_IDENTIFIER", "Expected generic name.")
         name == previous(q).text
     IN IF check(q, "TOKEN_COLON")
        THEN Call("after_constraint", [name |-> name, list |-> <<>>],
                  matched(q, "TOKEN_COLON"), Frame("parse_type", NoLocals))
        ELSE Return(q, GenericParam(name, <<>>))

parse_generic_after_constraint ==
  /\ At("parse_generic", "after_constraint")
  /\ LET l == [Top.l EXCEPT !.list = vec_push(@, ret)]
     IN IF check(p, "TOKEN_PLUS")
        THEN Call("after_constraint", l, matched(p, "TOKEN_PLUS"),
                  Frame("parse_type", NoLocals))
        ELSE Return(p, GenericParam(l.name, l.list))

parse_param_start ==
  /\ At("parse_param", "start")
  /\ LET q1 == consume(p, "TOKEN_IDENTIFIER", "Expected param name.")
         name == previous(q1).text
         q2 == consume(q1, "TOKEN_COLON", "Expected ':' after param name.")
     IN Call("after_type", [name |-> name], q2, Frame("parse_type", NoLocals))

parse_param_after_type ==
  /\ At("parse_param", "after_type")
  /\ Return(p, Param(Top.l.name, ret))

\* The vector is handed back by value as a struct, so the callers read
\* its elements through the `list` field.
parse_generics_finish(q, l) ==
  Return(consume(q, "TOKEN_GT", "Expected '>' after generic params."),
         [list |-> l.list])

parse_generics_start ==
  /\ At("parse_generics", "start")
  /\ IF check(p, "TOKEN_LT")
     THEN Goto("loop", Top.l, matched(p, "TOKEN_LT"))
     ELSE Return(p, [list |-> <<>>])

parse_generics_loop ==
  /\ At("parse_generics", "loop")
  /\ IF ~check(p, "TOKEN_GT") /\ ~check(p, "TOKEN_EOF")
     THEN Call("after_generic", Top.l, p, Frame("parse_generic", NoLocals))
     ELSE parse_generics_finish(p, Top.l)

parse_generics_after_generic ==
  /\ At("parse_generics", "after_generic")
  /\ LET l == [Top.l EXCEPT !.list = vec_push(@, ret)]
     IN IF check(p, "TOKEN_COMMA")
        THEN Goto("loop", l, matched(p, "TOKEN_COMMA"))
        ELSE parse_generics_finish(p, l)

FuncSignature(generics, params, return_types) ==
  [generics |-> generics, params |-> params, return_types |-> return_types]

parse_func_signature_start ==
  /\ At("parse_func_signature", "start")
  /\ Call("after_generics", Top.l, p, Frame("parse_generics", NoLocals))

parse_func_signature_after_generics ==
  /\ At("parse_func_signature", "after_generics")
  /\ Goto("params", [generics |-> ret.list, params |-> <<>>, return_types |-> <<>>],
          consume(p, "TOKEN_LPAREN", "Expected '(' before function params."))

\* from the end of the parameter loop on
parse_func_signature_returns(q, l) ==
  LET q1 == consume(q, "TOKEN_RPAREN", "Expected ')' after function params.")
  IN IF check(q1, "TOKEN_COLON")
     THEN Call("after_return", l, matched(q1, "TOKEN_COLON"),
               Frame("parse_type", NoLocals))
     ELSE Return(q1, FuncSignature(l.generics, l.params, l.return_types))

parse_func_signature_params ==
  /\ At("parse_func_signature", "params")
  /\ IF ~check(p, "TOKEN_RPAREN") /\ ~check(p, "TOKEN_EOF")
     THEN Call("after_param", Top.l, p, Frame("parse_param", NoLocals))
     ELSE parse_func_signature_returns(p, Top.l)

parse_func_signature_after_param ==
  /\ At("parse_func_signature", "after_param")
  /\ LET l == [Top.l EXCEPT !.params = vec_push(@, ret)]
     IN IF check(p, "TOKEN_COMMA")
        THEN Goto("params", l, matched(p, "TOKEN_COMMA"))
        ELSE parse_func_signature_returns(p, l)

parse_func_signature_after_return ==
  /\ At("parse_func_signature", "after_return")
  /\ LET l == [Top.l EXCEPT !.return_types = vec_push(@, ret)]
     IN IF check(p, "TOKEN_COMMA")
        THEN Call("after_return", l, matched(p, "TOKEN_COMMA"),
                  Frame("parse_type", NoLocals))
        ELSE Return(p, FuncSignature(l.generics, l.params, l.return_types))

TypeNext ==
  \/ parse_type_start
  \/ parse_type_after_inner
  \/ parse_type_after_sig
  \/ parse_type_after_arg
  \/ parse_generic_start
  \/ parse_generic_after_constraint
  \/ parse_param_start
  \/ parse_param_after_type
  \/ parse_generics_start
  \/ parse_generics_loop
  \/ parse_generics_after_generic
  \/ parse_func_signature_start
  \/ parse_func_signature_after_generics
  \/ parse_func_signature_params
  \/ parse_func_signature_after_param
  \/ parse_func_signature_after_return

(***************************************************************************)
(* Declarations: type_alias, function_decl, impl_decl, trait_decl,         *)
(* struct_decl.  NULLSTR is the null `const char *`.                       *)
(***************************************************************************)
NULLSTR == <<"(null)">>

type_alias_start ==
  /\ At("type_alias", "start")
  /\ LET q1 == consume(p, "TOKEN_TYPE", "Expected 'type'.")
         q2 == consume(q1, "TOKEN_IDENTIFIER", "Expected type alias name.")
         name == previous(q2).text
         q3 == consume(q2, "TOKEN_EQ", "Expected '=' after type alias name.")
     IN Call("after_type", [name |-> name], q3, Frame("parse_type", NoLocals))

type_alias_after_type ==
  /\ At("type_alias", "after_type")
  /\ Return(consume(p, "TOKEN_SEMICOLON", "Expected ';' after type alias."),
            [kind |-> "STMT_TYPE_ALIAS", name |-> Top.l.name, type |-> ret])

function_decl_start ==
  /\ At("function_decl", "start")
  /\ LET q1 == consume(p, "TOKEN_FUNCTION", "Expected 'function'.")
         q2 == consume(q1, "TOKEN_IDENTIFIER", "Expected function name.")
         name == previous(q2).text
     IN Call("after_sig", [name |-> name, sig |-> NULL], q2,
             Frame("parse_func_signature", NoLocals))

function_decl_after_sig ==
  /\ At("function_decl", "after_sig")
  /\ Call("after_body", [Top.l EXCEPT !.sig = ret], p, Frame("parse_block", NoLocals))

function_decl_after_body ==
  /\ At("function_decl", "after_body")
  /\ Return(consume(p, "TOKEN_END", "Expected 'end' after function."),
            [kind |-> "STMT_FUNCTION", name |-> Top.l.name,
             signature |-> Top.l.sig, body |-> ret])

impl_decl_start ==
  /\ At("impl_decl", "start")
  /\ Call("after_generics", Top.l, consume(p, "TOKEN_IMPL", "Expected 'impl'."),
          Frame("parse_generics", NoLocals))

\* locals of impl_decl once the generics are parsed; which = 1 while the
\* first argument list is being read, 2 for the second
impl_decl_after_generics ==
  /\ At("impl_decl", "after_generics")
  /\ LET q == consume(p, "TOKEN_IDENTIFIER", "Expected trait or struct name.")
         l == [generics |-> ret.list, first_name |-> previous(q).text,
               first_args |-> <<>>, second_name |-> NULLSTR,
               second_args |-> <<>>, functions |-> <<>>, which |-> 1]
     IN IF check(q, "TOKEN_LT")
        THEN Goto("args", l, matched(q, "TOKEN_LT"))
        ELSE Goto("for", l, q)

\* after either argument list: on to the `for` clause or to the functions
impl_decl_args_done(q, l) ==
  LET q1 == consume(q, "TOKEN_GT", "Expected '>' after trait args.")
  IN IF l.which = 1 THEN Goto("for", l, q1) ELSE Goto("functions", l, q1)

impl_decl_args ==
  /\ At("impl_decl", "args")
  /\ IF check(p, "TOKEN_GT")
     THEN impl_decl_args_done(matched(p, "TOKEN_GT"), Top.l)
     ELSE IF check(p, "TOKEN_EOF")
          THEN impl_decl_args_done(matched(p, "TOKEN_EOF"), Top.l)
          ELSE Call("after_arg", Top.l, p, Frame("parse_type", NoLocals))

impl_decl_after_arg ==
  /\ At("impl_decl", "after_arg")
  /\ LET l == IF Top.l.which = 1
              THEN [Top.l EXCEPT !.first_args = vec_push(@, ret)]
              ELSE [Top.l EXCEPT !.second_args = vec_push(@, ret)]
     IN IF check(p, "TOKEN_COMMA")
        THEN Goto("args", l, matched(p, "TOKEN_COMMA"))
        ELSE impl_decl_args_done(p, l)

impl_decl_for ==
  /\ At("impl_decl", "for")
  /\ IF check(p, "TOKEN_FOR")
     THEN LET q == consume(matched(p, "TOKEN_FOR"), "TOKEN_IDENTIFIER",
                           "Expected struct name.")
              l == [Top.l EXCEPT !.second_name = previous(q).text, !.which = 2]
          IN IF check(q, "TOKEN_LT")
             THEN Goto("args", l, matched(q, "TOKEN_LT"))
             ELSE Goto("functions", l, q)
     ELSE Goto("functions", Top.l, p)

\* Impl with the first name always taken as the trait
Impl_first_is_trait(l) ==
  [kind |-> "STMT_IMPL",
   generics |-> l.generics,
   trait_name |-> l.first_name,
   target_name |-> l.second_name,
   trait_args |-> l.first_args,
   target_args |-> l.second_args,
   functions |-> l.functions]

Impl(l) ==
  LET has_second == l.second_name # NULLSTR
  IN [kind |-> "STMT_IMPL",
      generics |-> l.generics,
      trait_name |-> IF has_second THEN l.first_name ELSE NULLSTR,
      target_name |-> IF has_second THEN l.second_name ELSE l.first_name,
      trait_args |-> IF has_second THEN l.first_args ELSE <<>>,
      target_args |-> IF has_second THEN l.second_args ELSE l.first_args,
      functions |-> l.functions]

impl_decl_functions ==
  /\ At("impl_decl", "functions")
  /\ IF ~check(p, "TOKEN_END") /\ ~check(p, "TOKEN_EOF")
     THEN Call("after_function", Top.l, p, Frame("function_decl", NoLocals))
     ELSE Return(consume(p, "TOKEN_END", "Expected 'end' after impl."), Impl(Top.l))

impl_decl_after_function ==
  /\ At("impl_decl", "after_function")
  /\ Goto("functions", [Top.l EXCEPT !.functions = vec_push(@, ret)], p)

trait_decl_start ==
  /\ At("trait_decl", "start")
  /\ LET q1 == consume(p, "TOKEN_TRAIT", "Expected 'trait'.")
         q2 == consume(q1, "TOKEN_IDENTIFIER", "Expected trait name.")
     IN Call("after_generics", [name |-> previous(q2).text], q2,
             Frame("parse_generics", NoLocals))

trait_decl_after_generics ==
  /\ At("trait_decl", "after_generics")
  /\ Goto("loop", [name |-> Top.l.name, generics |-> ret.list, fname |-> NULLSTR,
                   func_names |-> <<>>, functions |-> <<>>], p)

trait_decl_loop ==
  /\ At("trait_decl", "loop")
  /\ IF ~check(p, "TOKEN_END") /\ ~check(p, "TOKEN_EOF")
     THEN LET q1 == consume(p, "TOKEN_FUNCTION",
                            "Expected 'function' in trait declaration.")
              q2 == consume(q1, "TOKEN_IDENTIFIER",
                            "Expected function name in trait declaration.")
          IN Call("after_sig", [Top.l EXCEPT !.fname = previous(q2).text], q2,
                  Frame("parse_func_signature", NoLocals))
     ELSE Return(consume(p, "TOKEN_END", "Expected 'end' after trait declaration."),
                 [kind |-> "STMT_TRAIT", name |-> Top.l.name,
                  generics |-> Top.l.generics,
                  func_names |-> Top.l.func_names,
                  functions |-> Top.l.functions])

trait_decl_after_sig ==
  /\ At("trait_decl", "after_sig")
  /\ Goto("loop", [Top.l EXCEPT !.func_names = vec_push(@, Top.l.fname),
                                !.functions = vec_push(@, ret)], p)

struct_decl_finish(q, l) ==
  Return(consume(q, "TOKEN_END", "Expected 'end' after struct declaration."),
         [kind |-> "STMT_STRUCT", name |-> l.name, generics |-> l.generics,
          fields |-> l.fields])

struct_decl_start ==
  /\ At("struct_decl", "start")
  /\ LET q1 == consume(p, "TOKEN_STRUCT", "Expected 'struct'.")
         q2 == consume(q1, "TOKEN_IDENTIFIER", "Expected struct name.")
     IN Call("after_generics", [name |-> previous(q2).text], q2,
             Frame("parse_generics", NoLocals))

struct_decl_after_generics ==
  /\ At("struct_decl", "after_generics")
  /\ Goto("fields", [name |-> Top.l.name, generics |-> ret.list, fields |-> <<>>], p)

struct_decl_fields ==
  /\ At("struct_decl", "fields")
  /\ IF ~check(p, "TOKEN_END") /\ ~check(p, "TOKEN_EOF")
     THEN Call("after_field", Top.l, p, Frame("parse_param", NoLocals))
     ELSE struct_decl_finish(p, Top.l)

struct_decl_after_field ==
  /\ At("struct_decl", "after_field")
  /\ LET l == [Top.l EXCEPT !.fields = vec_push(@, ret)]
     IN IF check(p, "TOKEN_COMMA")
        THEN Goto("fields", l, matched(p, "TOKEN_COMMA"))
        ELSE struct_decl_finish(p, l)

DeclNext ==
  \/ type_alias_start
  \/ type_alias_after_type
  \/ function_decl_start
  \/ function_decl_after_sig
  \/ function_decl_after_body
  \/ impl_decl_start
  \/ impl_decl_after_generics
  \/ impl_decl_args
  \/ impl_decl_after_arg
  \/ impl_decl_for
  \/ impl_decl_functions
  \/ impl_decl_after_function
  \/ trait_decl_start
  \/ trait_decl_after_generics
  \/ trait_decl_loop
  \/ trait_decl_after_sig
  \/ struct_decl_start
  \/ struct_decl_after_generics
  \/ struct_decl_fields
  \/ struct_decl_after_field

(***************************************************************************)
(* Statements                                                              *)
(***************************************************************************)
local_decl_finish(q, l) ==
  Return(consume(q, "TOKEN_SEMICOLON", "Expected ';' after local declaration."),
         [kind |-> "STMT_LOCAL", decls |-> l.params, values |-> l.values])

local_decl_start ==
  /\ At("local_decl", "start")
  /\ Call("after_param", [params |-> <<>>, values |-> <<>>],
          consume(p, "TOKEN_LOCAL", "Expected 'local'"),
          Frame("parse_param", NoLocals))

local_decl_after_param ==
  /\ At("local_decl", "after_param")
  /\ LET l == [Top.l EXCEPT !.params = vec_push(@, ret)]
     IN IF check(p, "TOKEN_COMMA")
        THEN Call("after_param", l, matched(p, "TOKEN_COMMA"),
                  Frame("parse_param", NoLocals))
        ELSE IF check(p, "TOKEN_EQ")
             THEN Call("after_value", l, matched(p, "TOKEN_EQ"), parse_expression)
             ELSE local_decl_finish(p, l)

local_decl_after_value ==
  /\ At("local_decl", "after_value")
  /\ LET l == [Top.l EXCEPT !.values = vec_push(@, ret)]
     IN IF check(p, "TOKEN_COMMA")
        THEN Call("after_value", l, matched(p, "TOKEN_COMMA"), parse_expression)
        ELSE local_decl_finish(p, l)

\* for_stmt returns what numeric_for or generic_for returns: the frame is
\* handed over to the one chosen
for_stmt_start ==
  /\ At("for_stmt", "start")
  /\ LET q1 == consume(p, "TOKEN_FOR", "Expected 'for'.")
         q2 == consume(q1, "TOKEN_IDENTIFIER", "Expected variable name after 'for'.")
     IN IF check(q2, "TOKEN_EQ")
        THEN Goto("numeric_for", Top.l, q2)
        ELSE Goto("generic_for", Top.l, q2)

numeric_for_start ==
  /\ At("for_stmt", "numeric_for")
  /\ Call("after_start",
          [variable |-> previous(p).text, start |-> NULL, end |-> NULL, step |-> NULL],
          consume(p, "TOKEN_EQ", "Expected '=' after variable name."),
          parse_expression)

numeric_for_after_start ==
  /\ At("for_stmt", "after_start")
  /\ Call("after_end", [Top.l EXCEPT !.start = ret],
          consume(p, "TOKEN_COMMA", "Expected ',' after start value."),
          parse_expression)

numeric_for_after_end ==
  /\ At("for_stmt", "after_end")
  /\ LET l == [Top.l EXCEPT !.end = ret]
     IN IF check(p, "TOKEN_COMMA")
        THEN Call("after_step", l, matched(p, "TOKEN_COMMA"), parse_expression)
        ELSE Call("after_num_body", l,
                  consume(p, "TOKEN_DO", "Expected 'do' after for arguments."),
                  Frame("parse_block", NoLocals))

numeric_for_after_step ==
  /\ At("for_stmt", "after_step")
  /\ Call("after_num_body", [Top.l EXCEPT !.step = ret],
          consume(p, "TOKEN_DO", "Expected 'do' after for arguments."),
          Frame("parse_block", NoLocals))

numeric_for_after_body ==
  /\ At("for_stmt", "after_num_body")
  /\ Return(consume(p, "TOKEN_END", "Expected 'end' after for loop."),
            [kind |-> "STMT_FOR_NUM", name |-> Top.l.variable,
             start |-> Top.l.start, end |-> Top.l.end, step |-> Top.l.step,
             body |-> ret])

generic_for_start ==
  /\ At("for_stmt", "generic_for")
  /\ Goto("names", [names |-> <<previous(p).text>>, iter |-> NULL], p)

\* one test of `while (match(p, TOKEN_COMMA))` and, if it holds, one body
generic_for_names ==
  /\ At("for_stmt", "names")
  /\ IF check(p, "TOKEN_COMMA")
     THEN LET q == consume(matched(p, "TOKEN_COMMA"), "TOKEN_IDENTIFIER",
                           "Expected variable name.")
          IN Goto("names", [Top.l EXCEPT !.names = vec_push(@, previous(q).text)], q)
     ELSE Call("after_iter", Top.l,
               consume(p, "TOKEN_IN", "Expected 'in' after for loop variables."),
               parse_expression)

generic_for_after_iter ==
  /\ At("for_stmt", "after_iter")
  /\ Call("after_gen_body", [Top.l EXCEPT !.iter = ret],
          consume(p, "TOKEN_DO", "Expectd 'do' after for loop iterator."),
          Frame("parse_block", NoLocals))

generic_for_after_body ==
  /\ At("for_stmt", "after_gen_body")
  /\ Return(consume(p, "TOKEN_END", "Expected 'end' after for loop."),
            [kind |-> "STMT_FOR_GEN", names |-> Top.l.names,
             iter |-> Top.l.iter, body |-> ret])

repeat_stmt_start ==
  /\ At("repeat_stmt", "start")
  /\ Call("after_body", Top.l, consume(p, "TOKEN_REPEAT", "Expected 'repeat'."),
          Frame("parse_block", NoLocals))

repeat_stmt_after_body ==
  /\ At("repeat_stmt", "after_body")
  /\ Call("after_condition", [body |-> ret],
          consume(p, "TOKEN_UNTIL", "Expected 'until' after repeat body."),
          parse_expression)

repeat_stmt_after_condition ==
  /\ At("repeat_stmt", "after_condition")
  /\ Return(p, [kind |-> "STMT_REPEAT", body |-> Top.l.body, condition |-> ret])

while_stmt_start ==
  /\ At("while_stmt", "start")
  /\ Call("after_condition", Top.l, consume(p, "TOKEN_WHILE", "Expected 'while'."),
          parse_expression)

while_stmt_after_condition ==
  /\ At("while_stmt", "after_condition")
  /\ Call("after_body", [condition |-> ret],
          consume(p, "TOKEN_DO", "Expected 'do' after while condition."),
          Frame("parse_block", NoLocals))

while_stmt_after_body ==
  /\ At("while_stmt", "after_body")
  /\ Return(consume(p, "TOKEN_END", "Expected 'end' after while statement."),
            [kind |-> "STMT_WHILE", condition |-> Top.l.condition, body |-> ret])

If(condition, then_branch, else_branch) ==
  [kind |-> "STMT_IF", condition |-> condition, then_branch |-> then_branch,
   else_branch |-> else_branch]

\* The chain built through `tail`: links[1] is root, links[i + 1] hangs in the
\* else_branch of links[i], and last is what *tail holds at the end.
RECURSIVE IfChain(_, _)
IfChain(links, last) ==
  IF Len(links) = 1 THEN If(links[1].condition, links[1].then_branch, last)
  ELSE If(links[1].condition, links[1].then_branch, IfChain(Tail(links), last))

if_stmt_start ==
  /\ At("if_stmt", "start")
  /\ Call("after_condition", [links |-> <<>>, condition |-> NULL],
          consume(p, "TOKEN_IF", "Expected 'if'."), parse_expression)

if_stmt_after_condition ==
  /\ At("if_stmt", "after_condition")
  /\ Call("after_then", [Top.l EXCEPT !.condition = ret],
          consume(p, "TOKEN_THEN",
                  IF Top.l.links = <<>> THEN "Expected 'then' after if condition."
                  ELSE "Expected 'then' after elseif condition."),
          Frame("parse_block", NoLocals))

if_stmt_after_then ==
  /\ At("if_stmt", "after_then")
  /\ LET l == [Top.l EXCEPT !.links =
                 vec_push(@, [condition |-> Top.l.condition, then_branch |-> ret])]
     IN IF check(p, "TOKEN_ELSEIF")
        THEN Call("after_condition", l, matched(p, "TOKEN_ELSEIF"), parse_expression)
        ELSE IF check(p, "TOKEN_ELSE")
             THEN Call("after_else", l, matched(p, "TOKEN_ELSE"),
                       Frame("parse_block", NoLocals))
             ELSE Return(consume(p, "TOKEN_END", "Expected 'end' after if statement."),
                         IfChain(l.links, NULL))

\* if_stmt with the else block hung on the root
if_stmt_after_else_on_root ==
  /\ At("if_stmt", "after_else")
  /\ Return(consume(p, "TOKEN_END", "Expected 'end' after if statement."),
            If(Top.l.links[1].condition, Top.l.links[1].then_branch, ret))

if_stmt_after_else ==
  /\ At("if_stmt", "after_else")
  /\ Return(consume(p, "TOKEN_END", "Expected 'end' after if statement."),
            IfChain(Top.l.links, ret))

break_stmt ==
  /\ At("break_stmt", "start")
  /\ LET q1 == consume(p, "TOKEN_BREAK", "Expected 'break'.")
         q2 == consume(q1, "TOKEN_SEMICOLON", "Expected ';' after break.")
     IN Return(q2, [kind |-> "STMT_BREAK"])

return_stmt_finish(q, l) ==
  Return(consume(q, "TOKEN_SEMICOLON", "Expected ';' after return statement."),
         [kind |-> "STMT_RETURN", values |-> l.list])

return_stmt_start ==
  /\ At("return_stmt", "start")
  /\ Goto("loop", Top.l, consume(p, "TOKEN_RETURN", "Expected 'return'."))

return_stmt_loop ==
  /\ At("return_stmt", "loop")
  /\ IF ~check(p, "TOKEN_SEMICOLON") /\ ~check(p, "TOKEN_EOF")
     THEN Call("after_value", Top.l, p, parse_expression)
     ELSE return_stmt_finish(p, Top.l)

return_stmt_after_value ==
  /\ At("return_stmt", "after_value")
  /\ LET l == [Top.l EXCEPT !.list = vec_push(@, ret)]
     IN IF check(p, "TOKEN_COMMA")
        THEN Goto("loop", l, matched(p, "TOKEN_COMMA"))
        ELSE return_stmt_finish(p, l)

expression_or_assignment_start ==
  /\ At("expression_or_assignment", "start")
  /\ Call("after_target", [targets |-> <<>>, values |-> <<>>], p, parse_expression)

\* expression_or_assignment that lets a longer list stand as a statement
expression_or_assignment_after_target_any_length ==
  /\ At("expression_or_assignment", "after_target")
  /\ LET l == [Top.l EXCEPT !.targets = vec_push(@, ret)]
     IN IF check(p, "TOKEN_COMMA")
        THEN Call("after_target", l, matched(p, "TOKEN_COMMA"), parse_expression)
        ELSE IF check(p, "TOKEN_EQ")
             THEN Call("after_value", l, matched(p, "TOKEN_EQ"), parse_expression)
             ELSE Return(consume(p, "TOKEN_SEMICOLON", "Expected ';' after expression."),
                         [kind |-> "STMT_EXPR", expression |-> l.targets[1]])

expression_or_assignment_after_target ==
  /\ At("expression_or_assignment", "after_target")
  /\ LET l == [Top.l EXCEPT !.targets = vec_push(@, ret)]
     IN IF check(p, "TOKEN_COMMA")
        THEN Call("after_target", l, matched(p, "TOKEN_COMMA"), parse_expression)
        ELSE IF check(p, "TOKEN_EQ")
             THEN Call("after_value", l, matched(p, "TOKEN_EQ"), parse_expression)
             ELSE LET q1 == IF Len(l.targets) > 1
                            THEN error_at(p, previous(p),
                                          "Unexpected ',' in expression statement.")
                            ELSE p
                      q2 == consume(q1, "TOKEN_SEMICOLON",
                                    "Expected ';' after expression.")
                  IN Return(q2, [kind |-> "STMT_EXPR", expression |-> l.targets[1]])

expression_or_assignment_after_value ==
  /\ At("expression_or_assignment", "after_value")
  /\ LET l == [Top.l EXCEPT !.values = vec_push(@, ret)]
     IN IF check(p, "TOKEN_COMMA")
        THEN Call("after_value", l, matched(p, "TOKEN_COMMA"), parse_expression)
        ELSE Return(consume(p, "TOKEN_SEMICOLON", "Expected ';' after assignment."),
                    [kind |-> "STMT_ASSIGN", targets |-> l.targets,
                     values |-> l.values])

\* the function parse_statement dispatches to
statement_fn(kind) ==
  CASE kind = "TOKEN_TYPE"     -> "type_alias"
    [] kind = "TOKEN_IMPL"     -> "impl_decl"
    [] kind = "TOKEN_TRAIT"    -> "trait_decl"
    [] kind = "TOKEN_STRUCT"   -> "struct_decl"
    [] kind = "TOKEN_FUNCTION" -> "function_decl"
    [] kind = "TOKEN_LOCAL"    -> "local_decl"
    [] kind = "TOKEN_FOR"      -> "for_stmt"
    [] kind = "TOKEN_REPEAT"   -> "repeat_stmt"
    [] kind = "TOKEN_WHILE"    -> "while_stmt"
    [] kind = "TOKEN_IF"       -> "if_stmt"
    [] kind = "TOKEN_BREAK"    -> "break_stmt"
    [] kind = "TOKEN_RETURN"   -> "return_stmt"
    [] OTHER                   -> "expression_or_assignment"

\* parse_statement returns what the chosen function returns: its frame is
\* handed over to that function
parse_statement ==
  /\ At("parse_statement", "start")
  /\ stack' = <<Frame(statement_fn(peek(p).kind), NoLocals)>> \o Tail(stack)
  /\ ret' = NULL
  /\ UNCHANGED <<source, s, tokens, status, p, slot, result, mvars>>

Block(stmts) == [kind |-> "STMT_BLOCK", stmts |-> stmts]

parse_block_loop ==
  /\ At("parse_block", "start")
  /\ IF ~is_block_end(peek(p).kind)
     THEN Call("after_stmt", Top.l, p, Frame("parse_statement", NoLocals))
     ELSE Return(p, Block(Top.l.list))

parse_block_after_stmt ==
  /\ At("parse_block", "after_stmt")
  /\ Goto("start", [Top.l EXCEPT !.list = vec_push(@, ret)], p)

StmtNext ==
  \/ local_decl_start
  \/ local_decl_after_param
  \/ local_decl_after_value
  \/ for_stmt_start
  \/ numeric_for_start
  \/ numeric_for_after_start
  \/ numeric_for_after_end
  \/ numeric_for_after_step
  \/ numeric_for_after_body
  \/ generic_for_start
  \/ generic_for_names
  \/ generic_for_after_iter
  \/ generic_for_after_body
  \/ repeat_stmt_start
  \/ repeat_stmt_after_body
  \/ repeat_stmt_after_condition
  \/ while_stmt_start
  \/ while_stmt_after_condition
  \/ while_stmt_after_body
  \/ if_stmt_start
  \/ if_stmt_after_condition
  \/ if_stmt_after_then
  \/ if_stmt_after_else
  \/ break_stmt
  \/ return_stmt_start
  \/ return_stmt_loop
  \/ return_stmt_after_value
  \/ expression_or_assignment_start
  \/ expression_or_assignment_after_target
  \/ expression_or_assignment_after_value
  \/ parse_statement
  \/ parse_block_loop
  \/ parse_block_after_stmt

(***************************************************************************)
(* parse                                                                   *)
(***************************************************************************)
\* tokens[0] of a null vector is a read through the null pointer
parse_start ==
  /\ status = "ready"
  /\ IF tokens = <<>>
     THEN /\ status' = "crashed"
          /\ UNCHANGED <<p, stack>>
     ELSE /\ status' = "parsing"
          /\ p' = [current |-> 0, panic_mode |-> FALSE, had_error |-> FALSE,
                   diags |-> <<>>]
          /\ stack' = <<Frame("parse_block", NoLocals),
                        [fn |-> "parse", pc |-> "after_block", l |-> NoLocals]>>
  /\ UNCHANGED <<source, s, tokens, slot, ret, result, mvars>>

parse_return ==
  /\ At("parse", "after_block")
  /\ result' = [root |-> ret, success |-> ~p.had_error]
  /\ status' = "done"
  /\ stack' = <<>>
  /\ ret' = NULL
  /\ UNCHANGED <<source, s, tokens, p, slot, mvars>>

\* The cursor stands on tokens[count]: what that slot holds is whatever the
\* memory after the last token holds.
read_slot ==
  /\ status = "parsing"
  /\ p.current >= count
  /\ slot = "unread"
  /\ slot' \in TokenKinds
  /\ UNCHANGED <<source, s, tokens, status, p, stack, ret, result, mvars>>

(***************************************************************************)
(* Lexer.  The scanner reads the memory that holds the source followed by  *)
(* its NUL; offsets count from 0.                                          *)
(***************************************************************************)
NUL == "NUL"

Mem == source \o <<NUL>>

\* the character at offset i; memory after the NUL stops every scan
CharAt(i) == IF i < Len(Mem) THEN Mem[i + 1] ELSE NUL

Letters ==
  { "a", "b", "c", "d", "e", "f", "g", "h", "i", "j", "k", "l", "m", "n", "o",
    "p", "q", "r", "s", "t", "u", "v", "w", "x", "y", "z",
    "A", "B", "C", "D", "E", "F", "G", "H", "I", "J", "K", "L", "M", "N", "O",
    "P", "Q", "R", "S", "T", "U", "V", "W", "X", "Y", "Z" }

isalpha(c) == c \in Letters

isalnum(c) == isalpha(c) \/ isdigit(c)

keywords ==
  <<[word |-> <<"l", "o", "c", "a", "l">>, kind |-> "TOKEN_LOCAL"],
     [word |-> <<"f", "u", "n", "c", "t", "i", "o", "n">>, kind |-> "TOKEN_FUNCTION"],
     [word |-> <<"r", "e", "t", "u", "r", "n">>, kind |-> "TOKEN_RETURN"],
     [word |-> <<"i", "f">>, kind |-> "TOKEN_IF"],
     [word |-> <<"t", "h", "e", "n">>, kind |-> "TOKEN_THEN"],
     [word |-> <<"e", "l", "s", "e">>, kind |-> "TOKEN_ELSE"],
     [word |-> <<"e", "l", "s", "e", "i", "f">>, kind |-> "TOKEN_ELSEIF"],
     [word |-> <<"e", "n", "d">>, kind |-> "TOKEN_END"],
     [word |-> <<"w", "h", "i", "l", "e">>, kind |-> "TOKEN_WHILE"],
     [word |-> <<"d", "o">>, kind |-> "TOKEN_DO"],
     [word |-> <<"r", "e", "p", "e", "a", "t">>, kind |-> "TOKEN_REPEAT"],
     [word |-> <<"u", "n", "t", "i", "l">>, kind |-> "TOKEN_UNTIL"],
     [word |-> <<"f", "o", "r">>, kind |-> "TOKEN_FOR"],
     [word |-> <<"i", "n">>, kind |-> "TOKEN_IN"],
     [word |-> <<"b", "r", "e", "a", "k">>, kind |-> "TOKEN_BREAK"],
     [word |-> <<"n", "i", "l">>, kind |-> "TOKEN_NIL"],
     [word |-> <<"t", "r", "u", "e">>, kind |-> "TOKEN_TRUE"],
     [word |-> <<"f", "a", "l", "s", "e">>, kind |-> "TOKEN_FALSE"],
     [word |-> <<"a", "n", "d">>, kind |-> "TOKEN_AND"],
     [word |-> <<"o", "r">>, kind |-> "TOKEN_OR"],
     [word |-> <<"n", "o", "t">>, kind |-> "TOKEN_NOT"],
     [word |-> <<"t", "y", "p", "e">>, kind |-> "TOKEN_TYPE"],
     [word |-> <<"i", "m", "p", "l">>, kind |-> "TOKEN_IMPL"],
     [word |-> <<"t", "r", "a", "i", "t">>, kind |-> "TOKEN_TRAIT"],
     [word |-> <<"s", "t", "r", "u", "c", "t">>, kind |-> "TOKEN_STRUCT"]>>

KEYWORD_COUNT == Len(keywords)

\* the bytes of the source from offset a up to, not including, offset b
Span(a, b) == [i \in 1..(b - a) |-> CharAt(a + i - 1)]

make_empty_token(sc, kind) ==
  [kind |-> kind, text |-> <<"(uninit)">>, line |-> sc.line]

\* pool_intern returns the canonical copy of the bytes: the text is the bytes
make_token(sc, kind) ==
  [make_empty_token(sc, kind) EXCEPT !.text = Span(sc.start, sc.current)]

error_token(sc, msg) == [make_empty_token(sc, "TOKEN_ERROR") EXCEPT !.text = msg]

is_at_end(sc) == CharAt(sc.current) = NUL

lex_peek(sc) == CharAt(sc.current)

peek_next(sc) == IF is_at_end(sc) THEN NUL ELSE CharAt(sc.current + 1)

lex_advance(sc) == [sc EXCEPT !.current = @ + 1]

lex_check(sc, expected) == ~is_at_end(sc) /\ lex_peek(sc) = expected

lex_match(sc, expected) == IF lex_check(sc, expected) THEN lex_advance(sc) ELSE sc

RECURSIVE CountEq(_)
\* the number of '=' from offset i on
CountEq(i) == IF CharAt(i) = "=" THEN 1 + CountEq(i + 1) ELSE 0

\* returns {sc, level}
\* scan_opening_level that passes the newline after the opener uncounted
scan_opening_level_line_kept(sc) ==
  LET level == CountEq(sc.current)
      sc1 == [sc EXCEPT !.current = @ + level + 1]
      sc2 == IF lex_peek(sc1) = "\r" THEN lex_advance(sc1) ELSE sc1
      sc3 == IF lex_peek(sc2) = "\n" THEN lex_advance(sc2) ELSE sc2
  IN IF CharAt(sc.current + level) # "[" THEN [sc |-> sc, level |-> -1]
     ELSE [sc |-> sc3, level |-> level]

scan_opening_level(sc) ==
  LET level == CountEq(sc.current)
      sc1 == [sc EXCEPT !.current = @ + level + 1]
      sc2 == IF lex_peek(sc1) = "\r" THEN lex_advance(sc1) ELSE sc1
      sc3 == IF lex_peek(sc2) = "\n"
             THEN [lex_advance(sc2) EXCEPT !.line = @ + 1] ELSE sc2
  IN IF CharAt(sc.current + level) # "[" THEN [sc |-> sc, level |-> -1]
     ELSE [sc |-> sc3, level |-> level]

\* returns {sc, closed}
scan_closing(sc, level) ==
  IF /\ lex_peek(sc) = "]"
     /\ \A i \in 0..(level - 1) : CharAt(sc.current + 1 + i) = "="
     /\ CharAt(sc.current + 1 + level) = "]"
  THEN [sc |-> [sc EXCEPT !.current = @ + level + 2], closed |-> TRUE]
  ELSE [sc |-> sc, closed |-> FALSE]

RECURSIVE SkipLongComment(_, _)
\* while (!scan_closing(s, level) && !is_at_end(s)) { count the line; advance }
SkipLongComment(sc, level) ==
  IF scan_closing(sc, level).closed THEN scan_closing(sc, level).sc
  ELSE IF is_at_end(sc) THEN sc
  ELSE SkipLongComment(
         [sc EXCEPT !.current = @ + 1,
                    !.line = IF lex_peek(sc) = "\n" THEN @ + 1 ELSE @], level)

RECURSIVE SkipLine(_)
\* while (peek(s) != '\n' && !is_at_end(s)) advance(s)
SkipLine(sc) ==
  IF lex_peek(sc) # "\n" /\ ~is_at_end(sc) THEN SkipLine(lex_advance(sc)) ELSE sc

\* the comment that starts at the "--" the scanner stands on
SkipComment(sc) ==
  LET sc2 == lex_advance(lex_advance(sc))
      open == scan_opening_level(lex_advance(sc2))
  IN IF lex_peek(sc2) = "["
     THEN IF open.level >= 0 THEN SkipLongComment(open.sc, open.level)
          ELSE SkipLine(open.sc)
     ELSE SkipLine(sc2)

RECURSIVE skip_whitespace(_)
skip_whitespace(sc) ==
  LET c == lex_peek(sc)
  IN CASE c \in {" ", "\r", "\t"} -> skip_whitespace(lex_advance(sc))
       [] c = "\n" -> skip_whitespace([lex_advance(sc) EXCEPT !.line = @ + 1])
       [] c = "-" /\ peek_next(sc) = "-" -> skip_whitespace(SkipComment(sc))
       [] OTHER -> sc

get_identifier_kind(text) ==
  IF \E i \in 1..KEYWORD_COUNT : keywords[i].word = text
  THEN keywords[CHOOSE i \in 1..KEYWORD_COUNT :
                  /\ keywords[i].word = text
                  /\ \A j \in 1..(i - 1) : keywords[j].word # text].kind
  ELSE "TOKEN_IDENTIFIER"

RECURSIVE WhileAlnum(_)
WhileAlnum(sc) ==
  IF isalnum(lex_peek(sc)) \/ lex_peek(sc) = "_"
  THEN WhileAlnum(lex_advance(sc)) ELSE sc

RECURSIVE WhileDigit(_)
WhileDigit(sc) == IF isdigit(lex_peek(sc)) THEN WhileDigit(lex_advance(sc)) ELSE sc

\* identifier, number, string, long_string and scan_token return {sc, token}
identifier(sc) ==
  LET sc1 == WhileAlnum(sc)
  IN [sc |-> sc1,
      token |-> make_token(sc1, get_identifier_kind(Span(sc1.start, sc1.current)))]

lex_number(sc) ==
  LET sc1 == WhileDigit(sc)
      sc2 == IF lex_check(sc1, ".") THEN WhileDigit(lex_match(sc1, ".")) ELSE sc1
  IN [sc |-> sc2, token |-> make_token(sc2, "TOKEN_NUMBER")]


\* the character with code n; codes without a character of their own in the
\* model are written "#n"
Chr(n) ==
  CASE n = 0 -> NUL
    [] n = 7 -> "BEL"
    [] n = 8 -> "BS"
    [] n = 9 -> "\t"
    [] n = 10 -> "\n"
    [] n = 11 -> "VT"
    [] n = 12 -> "\f"
    [] n = 13 -> "\r"
    [] n = 32 -> " "
    [] n \in 48..57 ->
         <<"0", "1", "2", "3", "4", "5", "6", "7", "8", "9">>[n - 47]
    [] n = 97 -> "a"
    [] OTHER -> "#" \o ToString(n)

\* the byte an escape letter stands for, "" for a letter that is not one
Escape(esc) ==
  CASE esc = "a" -> "BEL"
    [] esc = "b" -> "BS"
    [] esc = "f" -> "\f"
    [] esc = "n" -> "\n"
    [] esc = "r" -> "\r"
    [] esc = "t" -> "\t"
    [] esc = "v" -> "VT"
    [] esc = "\\" -> "\\"
    [] esc = "\"" -> "\""
    [] esc = "'" -> "'"
    [] esc = "\n" -> "\n"
    [] OTHER -> ""

RECURSIVE DecimalEscape(_, _, _)
\* for (i = 0; i < 3 && isdigit(peek(s)); i++) val = val * 10 + digit;
\* returns {sc, val}
DecimalEscape(sc, i, val) ==
  IF i < 3 /\ isdigit(lex_peek(sc))
  THEN DecimalEscape(lex_advance(sc), i + 1, val * 10 + Digit(lex_peek(sc)))
  ELSE [sc |-> sc, val |-> val]

RECURSIVE StringBody(_, _, _)
\* the loop of string; returns {sc, buf}
StringBody(sc, quote, buf) ==
  IF lex_peek(sc) # quote /\ ~is_at_end(sc)
  THEN LET c == lex_peek(sc)
           sc1 == lex_advance(sc)
           esc == lex_peek(sc1)
           dec == DecimalEscape(sc1, 0, 0)
       IN IF c = "\\"
          THEN IF isdigit(esc)
               THEN StringBody(dec.sc, quote, Append(buf, Chr(dec.val % 256)))
               ELSE IF Escape(esc) # ""
                    THEN StringBody(
                           [lex_advance(sc1) EXCEPT
                              !.line = IF esc = "\n" THEN @ + 1 ELSE @],
                           quote, Append(buf, Escape(esc)))
                    ELSE StringBody(lex_advance(sc1), quote, Append(buf, esc))
          ELSE StringBody([sc1 EXCEPT !.line = IF c = "\n" THEN @ + 1 ELSE @],
                          quote, Append(buf, c))
  ELSE [sc |-> sc, buf |-> buf]

Unterminated ==
  <<"U", "n", "t", "e", "r", "m", "i", "n", "a", "t", "e", "d", " ",
    "s", "t", "r", "i", "n", "g", ".">>

UnknownDot ==
  <<"U", "n", "k", "n", "o", "w", "n", " ",
    "c", "h", "a", "r", "a", "c", "t", "e", "r", ".">>

UnknownNoDot ==
  <<"U", "n", "k", "n", "o", "w", "n", " ",
    "c", "h", "a", "r", "a", "c", "t", "e", "r">>

lex_string(sc) ==
  LET body == StringBody(lex_advance(sc), lex_peek(sc), <<>>)
      sc1 == lex_advance(body.sc)
  IN IF is_at_end(body.sc)
     THEN [sc |-> body.sc, token |-> error_token(body.sc, Unterminated)]
     ELSE [sc |-> sc1,
           token |-> [make_empty_token(sc1, "TOKEN_STRING") EXCEPT !.text = body.buf]]

RECURSIVE LongStringBody(_, _, _)
\* the loop of long_string; returns {sc, buf}
LongStringBody(sc, level, buf) ==
  IF scan_closing(sc, level).closed
  THEN [sc |-> scan_closing(sc, level).sc, buf |-> buf]
  ELSE IF is_at_end(sc) THEN [sc |-> sc, buf |-> buf]
  ELSE LongStringBody(
         [sc EXCEPT !.current = @ + 1,
                    !.line = IF lex_peek(sc) = "\n" THEN @ + 1 ELSE @],
         level, Append(buf, lex_peek(sc)))

long_string(sc, level) ==
  LET body == LongStringBody(sc, level, <<>>)
  IN IF is_at_end(body.sc)
     THEN [sc |-> body.sc, token |-> error_token(body.sc, Unterminated)]
     ELSE [sc |-> body.sc,
           token |-> [make_empty_token(body.sc, "TOKEN_STRING")
                        EXCEPT !.text = body.buf]]

\* the token scan_token makes of a character that needs no lookahead, "" if none
SingleCharKind(c) ==
  CASE c = "(" -> "TOKEN_LPAREN"
    [] c = ")" -> "TOKEN_LPAREN"
    [] c = "{" -> "TOKEN_RBRACE"
    [] c = "}" -> "TOKEN_RBRACE"
    [] c = "]" -> "TOKEN_RBRACK"
    [] c = "," -> "TOKEN_COMMA"
    [] c = ":" -> "TOKEN_COLON"
    [] c = ";" -> "TOKEN_SEMICOLON"
    [] c = "+" -> "TOKEN_PLUS"
    [] c = "-" -> "TOKEN_MINUS"
    [] c = "*" -> "TOKEN_STAR"
    [] c = "/" -> "TOKEN_SLASH"
    [] c = "%" -> "TOKEN_PERCENT"
    [] c = "^" -> "TOKEN_CARET"
    [] c = "#" -> "TOKEN_HASH"
    [] c = "|" -> "TOKEN_PIPE"
    [] OTHER -> ""

\* the token for character c, which the scanner sc has just passed
ScanChar(sc, c) ==
  LET tok(sc1, kind) == [sc |-> sc1, token |-> make_token(sc1, kind)]
      err(sc1, msg) == [sc |-> sc1, token |-> error_token(sc1, msg)]
      eq == lex_match(sc, "=")
      dot2 == lex_match(sc, ".")
      dot3 == lex_match(dot2, ".")
      open == scan_opening_level(sc)
  IN CASE isalpha(c) \/ c = "_" -> identifier(sc)
       [] isdigit(c) -> lex_number(sc)
       [] SingleCharKind(c) # "" -> tok(sc, SingleCharKind(c))
       [] c = "[" -> IF open.level = -1 THEN tok(sc, "TOKEN_LBRACK")
                     ELSE long_string(open.sc, open.level)
       [] c = "=" -> IF lex_check(sc, "=") THEN tok(eq, "TOKEN_EQ_EQ")
                     ELSE tok(sc, "TOKEN_EQ")
       [] c = "~" -> IF lex_check(sc, "=") THEN tok(eq, "TOKEN_NOT_EQ")
                     ELSE err(sc, UnknownDot)
       [] c = "<" -> IF lex_check(sc, "=") THEN tok(eq, "TOKEN_LTEQ")
                     ELSE tok(sc, "TOKEN_LT")
       [] c = ">" -> IF lex_check(sc, "=") THEN tok(eq, "TOKEN_GTEQ")
                     ELSE tok(sc, "TOKEN_GT")
       [] c = "." -> IF lex_check(sc, ".")
                     THEN IF lex_check(dot2, ".") THEN tok(dot3, "TOKEN_DOT_DOT_DOT")
                          ELSE tok(dot2, "TOKEN_DOT_DOT")
                     ELSE tok(sc, "TOKEN_DOT")
       [] c \in {"\"", "'"} -> lex_string([sc EXCEPT !.current = @ - 1])
       [] OTHER -> err(sc, UnknownNoDot)

scan_token(sc) ==
  LET sc1 == skip_whitespace(sc)
      sc2 == [sc1 EXCEPT !.start = sc1.current]
  IN IF is_at_end(sc2) THEN [sc |-> sc2, token |-> make_token(sc2, "TOKEN_EOF")]
     ELSE ScanChar(lex_advance(sc2), lex_peek(sc2))

(***************************************************************************)
(* tokenize                                                                *)
(***************************************************************************)
\* one test of `while (!is_at_end(&s))` and, if it holds, one body.  A scanner
\* that has passed the NUL reads memory that is not the source: from there
\* on nothing is known of the run.
tokenize_loop ==
  /\ status = "lexing"
  /\ IF is_at_end(s)
     THEN /\ status' = "lexed"
          /\ UNCHANGED <<s, tokens>>
     ELSE LET r == scan_token(s)
          IN /\ s' = r.sc
             /\ tokens' = Append(tokens, r.token)
             /\ status' = IF r.sc.current > Len(source) THEN "undefined"
                          ELSE IF r.token.kind = "TOKEN_EOF" THEN "lexed"
                          ELSE "lexing"
  /\ UNCHANGED <<source, p, slot, stack, ret, result, mvars>>

\* after the loop: the closing EOF, and the return to main
tokenize_return ==
  /\ status = "lexed"
  /\ tokens' = IF tokens # <<>> /\ tokens[Len(tokens)].kind # "TOKEN_EOF"
               THEN Append(tokens, make_empty_token(s, "TOKEN_EOF"))
               ELSE tokens
  /\ status' = "ready"
  /\ UNCHANGED <<source, s, p, slot, stack, ret, result, mvars>>


(***************************************************************************)
(* Inputs.  A token sequence is written as its words; Word gives the token *)
(* the lexer is meant to make of a word ("@" stands for a character the    *)
(* lexer rejects).  A one-letter word is an identifier, a digit a number.  *)
(***************************************************************************)
Word(w) ==
  CASE w = "local" -> Token("TOKEN_LOCAL", <<"l", "o", "c", "a", "l">>)
    [] w = "function" -> Token("TOKEN_FUNCTION", <<"f", "u", "n", "c", "t", "i", "o", "n">>)
    [] w = "return" -> Token("TOKEN_RETURN", <<"r", "e", "t", "u", "r", "n">>)
    [] w = "if" -> Token("TOKEN_IF", <<"i", "f">>)
    [] w = "then" -> Token("TOKEN_THEN", <<"t", "h", "e", "n">>)
    [] w = "else" -> Token("TOKEN_ELSE", <<"e", "l", "s", "e">>)
    [] w = "elseif" -> Token("TOKEN_ELSEIF", <<"e", "l", "s", "e", "i", "f">>)
    [] w = "end" -> Token("TOKEN_END", <<"e", "n", "d">>)
    [] w = "while" -> Token("TOKEN_WHILE", <<"w", "h", "i", "l", "e">>)
    [] w = "do" -> Token("TOKEN_DO", <<"d", "o">>)
    [] w = "repeat" -> Token("TOKEN_REPEAT", <<"r", "e", "p", "e", "a", "t">>)
    [] w = "until" -> Token("TOKEN_UNTIL", <<"u", "n", "t", "i", "l">>)
    [] w = "for" -> Token("TOKEN_FOR", <<"f", "o", "r">>)
    [] w = "in" -> Token("TOKEN_IN", <<"i", "n">>)
    [] w = "break" -> Token("TOKEN_BREAK", <<"b", "r", "e", "a", "k">>)
    [] w = "nil" -> Token("TOKEN_NIL", <<"n", "i", "l">>)
    [] w = "true" -> Token("TOKEN_TRUE", <<"t", "r", "u", "e">>)
    [] w = "false" -> Token("TOKEN_FALSE", <<"f", "a", "l", "s", "e">>)
    [] w = "and" -> Token("TOKEN_AND", <<"a", "n", "d">>)
    [] w = "or" -> Token("TOKEN_OR", <<"o", "r">>)
    [] w = "not" -> Token("TOKEN_NOT", <<"n", "o", "t">>)
    [] w = "type" -> Token("TOKEN_TYPE", <<"t", "y", "p", "e">>)
    [] w = "impl" -> Token("TOKEN_IMPL", <<"i", "m", "p", "l">>)
    [] w = "trait" -> Token("TOKEN_TRAIT", <<"t", "r", "a", "i", "t">>)
    [] w = "struct" -> Token("TOKEN_STRUCT", <<"s", "t", "r", "u", "c", "t">>)
    [] w = "(" -> Token("TOKEN_LPAREN", <<"(">>)
    [] w = ")" -> Token("TOKEN_RPAREN", <<")">>)
    [] w = "{" -> Token("TOKEN_LBRACE", <<"{">>)
    [] w = "}" -> Token("TOKEN_RBRACE", <<"}">>)
    [] w = "[" -> Token("TOKEN_LBRACK", <<"[">>)
    [] w = "]" -> Token("TOKEN_RBRACK", <<"]">>)
    [] w = "," -> Token("TOKEN_COMMA", <<",">>)
    [] w = "." -> Token("TOKEN_DOT", <<".">>)
    [] w = ":" -> Token("TOKEN_COLON", <<":">>)
    [] w = ";" -> Token("TOKEN_SEMICOLON", <<";">>)
    [] w = "+" -> Token("TOKEN_PLUS", <<"+">>)
    [] w = "-" -> Token("TOKEN_MINUS", <<"-">>)
    [] w = "*" -> Token("TOKEN_STAR", <<"*">>)
    [] w = "/" -> Token("TOKEN_SLASH", <<"/">>)
    [] w = "%" -> Token("TOKEN_PERCENT", <<"%">>)
    [] w = "^" -> Token("TOKEN_CARET", <<"^">>)
    [] w = "#" -> Token("TOKEN_HASH", <<"#">>)
    [] w = "=" -> Token("TOKEN_EQ", <<"=">>)
    [] w = "==" -> Token("TOKEN_EQ_EQ", <<"=", "=">>)
    [] w = "~=" -> Token("TOKEN_NOT_EQ", <<"~", "=">>)
    [] w = "<" -> Token("TOKEN_LT", <<"<">>)
    [] w = "<=" -> Token("TOKEN_LTEQ", <<"<", "=">>)
    [] w = ">" -> Token("TOKEN_GT", <<">">>)
    [] w = ">=" -> Token("TOKEN_GTEQ", <<">", "=">>)
    [] w = ".." -> Token("TOKEN_DOT_DOT", <<".", ".">>)
    [] w = "..." -> Token("TOKEN_DOT_DOT_DOT", <<".", ".", ".">>)
    [] w = "|" -> Token("TOKEN_PIPE", <<"|">>)
    [] w = "number" -> Token("TOKEN_IDENTIFIER", <<"n", "u", "m", "b", "e", "r">>)
    [] w = "void" -> Token("TOKEN_IDENTIFIER", <<"v", "o", "i", "d">>)
    [] w = "string" -> Token("TOKEN_IDENTIFIER", <<"s", "t", "r", "i", "n", "g">>)
    [] w = "bool" -> Token("TOKEN_IDENTIFIER", <<"b", "o", "o", "l">>)
    [] w = "Point" -> Token("TOKEN_IDENTIFIER", <<"P", "o", "i", "n", "t">>)
    [] w = "Show" -> Token("TOKEN_IDENTIFIER", <<"S", "h", "o", "w">>)
    [] w = "@" -> Token("TOKEN_ERROR", UnknownNoDot)
    [] w = "'s'" -> Token("TOKEN_STRING", <<"s">>)
    [] w = "1.5" -> Token("TOKEN_NUMBER", <<"1", ".", "5">>)
    [] isdigit(w) -> Token("TOKEN_NUMBER", <<w>>)
    [] OTHER -> Token("TOKEN_IDENTIFIER", <<w>>)

EOFToken == Token("TOKEN_EOF", <<>>)

\* the token sequence for the words ws, closed by EOF
Prog(ws) == [i \in 1..Len(ws) |-> Word(ws[i])] \o <<EOFToken>>

\* all sequences over S of length 0..n
RECURSIVE SeqsUpTo(_, _)
SeqsUpTo(S, n) ==
  IF n = 0 THEN {<<>>}
  ELSE SeqsUpTo(S, n - 1) \cup
       {Append(sq, x) : sq \in {t \in SeqsUpTo(S, n - 1) : Len(t) = n - 1}, x \in S}

BinaryWords ==
  {"+", "-", "*", "/", "%", "^", "..", "==", "~=", "<", "<=", ">", ">=", "and", "or"}

UnaryWords == {"-", "not", "#"}

\* x op1 y op2 z ;
OperatorPairs == {<<"x", o1, "y", o2, "z", ";">> : o1 \in BinaryWords, o2 \in BinaryWords}

\* u a op b ;
UnaryThenBinary == {<<u, "a", o, "b", ";">> : u \in UnaryWords, o \in BinaryWords}

ShortWords == {"x", "=", ";", "end", "trait", "@", "("}

ShortSeqs == SeqsUpTo(ShortWords, MaxLen)

Programs ==
  { <<"local", "x", ":", "number", "=", "4", ";">>,
    <<"1", "+", "2", "*", "3", ";">>,
    <<"return", "2", "^", "3", "^", "2", ";">>,
    <<"return", ";">>,
    <<"return", "nil", ",", "true", ",", "...", ",", "'s'", ",", "1.5", ";">>,
    <<"x", ",", "y", "=", "1", ",", "(", "2", ")", ";">>,
    <<"x", ",", "y", ";">>,
    <<"x", "(", ")", ";", "end", "y", "(", ")", ";">>,
    <<"x", ",", "y", ",", "z", "=", "1", ";">>,
    <<"x", "=", "1", ",", "2", ",", "3", ";">>,
    <<"f", "(", ")", ";">>,
    <<"f", "(", "a", ",", "b", ")", ".", "g", "[", "1", "]", ";">>,
    <<"local", "p", ":", "Point", "=", "Point", "{", "x", ":", "1", ",", "y", ":", "2", "}", ";">>,
    <<"x", "=", "P", "{", "}", ";">>,
    <<"type", "A", "=", "[", "[", "number", "]", "]", ";">>,
    <<"type", "F", "=", "function", "(", "a", ":", "T", ")", ":", "T", ",", "U", ";">>,
    <<"type", "M", "=", "Map", "<", "K", ",", "V", ">", ";">>,
    <<"type", "M", "=", ";">>,
    <<"function", "f", "<", "T", ":", "A", "+", "B", ",", "U", ">", "(", "x", ":", "T", ",", "y", ":", "U", ")", ":", "T",
      "return", "x", ";", "end">>,
    <<"function", "f", "(", ")", "end">>,
    <<"impl", "Show", "for", "Point", "function", "r", "(", "s", ":", "Point", ")", ":", "string",
      "return", "'s'", ";", "end", "end">>,
    <<"impl", "<", "T", ">", "A", "<", "T", ",", "U", ">", "for", "B", "<", "T", ">", "end">>,
    <<"impl", "A", "<", "T", ",", ">", "end">>,
    <<"impl", "A", "<">>,
    <<"impl", "A", "<", "T", ">", "end">>,
    <<"local", "x", "=", "1", ";">>,
    <<"local", "x", ";">>,
    <<"function", "f", "(", "a", ")", "end">>,
    <<"struct", "P", "x", "end">>,
    <<"impl", "A", "function", "f", "(", ")", "end", "function", "g", "(", ")", "end", "end">>,
    <<"trait", "T", "<", "A", ">", "function", "f", "(", "x", ":", "A", ")", "function", "g", "(", ")", "end">>,
    <<"struct", "P", "<", "T", ">", "x", ":", "T", ",", "y", ":", "number", "end">>,
    <<"struct", "P", "end">>,
    <<"local", "x", ",", "y", ":", "bool", ";">>,
    <<"local", "x", ":", "void", "=", "1", ",", "2", ";">>,
    <<"for", "i", "=", "1", ",", "2", "do", "break", ";", "end">>,
    <<"for", "i", "=", "1", ",", "2", ",", "3", "do", "end">>,
    <<"for", "k", ",", "v", "in", "f", "do", "x", "=", "1", ";", "end">>,
    <<"repeat", "x", "=", "1", ";", "until", "x">>,
    <<"while", "x", "do", "f", "(", ")", ";", "end">>,
    <<"if", "a", "then", "b", "(", ")", ";", "elseif", "c", "then", "d", "(", ")", ";",
      "else", "e", "(", ")", ";", "end">>,
    <<"if", "a", "then", "end">>,
    <<"if", "a", "then", "elseif", "b", "then", "elseif", "c", "then", "else", "x", ";", "end">>,
    <<"not", "a", "==", "b", ";">>,
    <<"-", "a", "^", "b", ";">>,
    <<"(", "x", "+", ";">>,
    <<"=", ";", "=", ";">>,
    <<"trait", "T", ";", "end">>,
    <<"x", "(", ";", "end", "y", "(", ")", ";">> }

TokenInputs ==
  {Prog(ws) : ws \in Programs \cup OperatorPairs \cup UnaryThenBinary \cup ShortSeqs}

SourceChars == {"a", "1", " ", ";", "\n"}

\* a text with a newline in each place the scanner can meet one: after a line
\* comment, after the opener of a long comment and inside it, inside a quoted
\* string bare and after a backslash, after the opener of a long string and
\* inside it
LinesSource ==
  <<"-", "-", "c", "\n",
    "-", "-", "[", "[", "\n", "x", "\n", "]", "]",
    "\"", "a", "\n", "\\", "\n", "\"",
    "[", "[", "\n", "d", "\n", "]", "]", ";">>

\* type A = [[number]]; and the same text with the brackets set apart
NestedArraySource ==
  <<"t", "y", "p", "e", " ", "A", " ", "=", " ",
    "[", "[", "n", "u", "m", "b", "e", "r", "]", "]", ";">>

SpacedArraySource ==
  <<"t", "y", "p", "e", " ", "A", " ", "=", " ",
    "[", " ", "[", "n", "u", "m", "b", "e", "r", "]", "]", ";">>

\* the text of a quoted string holding a backslash and the digits ds
EscapeSource(ds) == <<"\"", "\\">> \o ds \o <<"\"">>

EscapeDigits ==
  { <<"9">>, <<"9", "7">>, <<"0", "9", "7">>, <<"2", "5", "5">>,
    <<"2", "5", "6">>, <<"9", "9", "9">>, <<"0", "9", "7", "1">> }

\* the text of a local declaration of x with the type written as t
TypeSource(t) == <<"l", "o", "c", "a", "l", " ", "x", ":">> \o t \o <<";">>

PrimitiveNames ==
  { <<"v", "o", "i", "d">>, <<"n", "i", "l">>, <<"b", "o", "o", "l">>,
    <<"n", "u", "m", "b", "e", "r">>, <<"s", "t", "r", "i", "n", "g">> }

Sources ==
  SeqsUpTo(SourceChars, MaxSrc) \cup
  {EscapeSource(ds) : ds \in EscapeDigits} \cup
  {TypeSource(t) : t \in PrimitiveNames \cup {<<"n", "i", "l", "s">>, <<"P", "<", "a", ",", "b", ">">>}} \cup
  { <<"x", " ", "=", "=", " ", "1", ".", "5", ";">>,
    <<"-", "-", "[", "[", "c", "]", "]", "f", "(", ")">>,
    <<"\"", "a", "\\", "n", "\"", " ", "~">>,
    <<"[", "=", "[", "s", "]", "=", "]", ".", ".", ".">>,
    <<"-", "-", "c", "\n", "<", "=", ">", "=", "~", "=", "{", "}", "[", "]">>,
    <<"f", "(", ")", ";">>,
    <<"P", "{", "}", ";">>,
    <<"[", "[", "a", "]", "]">>,
    NestedArraySource,
    SpacedArraySource,
    <<"\"", "a", "b", "c", "\\">>,
    LinesSource,
    <<"[", "=", "=", "[", "a", "]", "=", "]", "]", "]", "=", "=", "]", ";">>,
    <<"[", "[", "\n", "\n", "a", "]", "]", ";">>,
    <<"[", "=", "[", "a", "]", "]", ";">>,
    <<" ", "-", "-", "c", "\n", "\t", "\r">>,
    <<"-", "-", "[", "[", "c", "]", "]", " ", "-", "-", "c">> }

(***************************************************************************)
(* Arena and string pool.  A pointer into the arena is its offset from the *)
(* arena base.  u64 arithmetic wraps; the model keeps the wrap and scales  *)
(* the width down to 16 bits, so that every value fits.                    *)
(***************************************************************************)
U64 == 65536

ARENA_BASE_POS == 16

ARENA_ALIGN == 8

sizeof_Expr == 64

sizeof_StringEntry == 24

sizeof_pointer == 8

\* the null pointer
NULLPTR == -1

\* x rounded up to the multiple of a, a power of two
ALIGN_UP_POW2(x, a) == (((x + a - 1) % U64) \div a) * a

MIN(a, b) == IF a < b THEN a ELSE b

arena_create(capacity) == [capacity |-> capacity, pos |-> ARENA_BASE_POS]

\* the arena after the call and the pointer returned
arena_push(ar, size) ==
  LET pos_aligned == ALIGN_UP_POW2(ar.pos, ARENA_ALIGN)
      new_pos == (pos_aligned + size) % U64
  IN IF new_pos > ar.capacity THEN [arena |-> ar, ptr |-> NULLPTR]
     ELSE [arena |-> [ar EXCEPT !.pos = new_pos], ptr |-> pos_aligned]

arena_pop(ar, size) ==
  [ar EXCEPT !.pos = (ar.pos - MIN(size, (ar.pos - ARENA_BASE_POS) % U64)) % U64]

arena_pop_to(ar, pos) ==
  arena_pop(ar, IF pos < ar.pos THEN ar.pos - pos ELSE 0)

arena_clear(ar) == arena_pop_to(ar, ARENA_BASE_POS)

\* the arena after the call and the pointer returned
arena_push_byte(ar) ==
  IF ar.pos >= ar.capacity THEN [arena |-> ar, ptr |-> NULLPTR]
  ELSE [arena |-> [ar EXCEPT !.pos = (ar.pos + 1) % U64], ptr |-> ar.pos]

\* the arena after the call, the pointer returned and the number of bytes
\* memcpy has moved to it
arena_resize(ar, base, old_size, new_size) ==
  LET old_end == (base + old_size) % U64
      diff == (new_size - old_size) % U64
      new_base == arena_push(ar, new_size)
  IN IF base = NULLPTR
     THEN [arena |-> new_base.arena, ptr |-> new_base.ptr, copied |-> 0]
     ELSE IF old_end = ar.pos
          THEN IF (ar.pos + diff) % U64 > ar.capacity
               THEN [arena |-> ar, ptr |-> NULLPTR, copied |-> 0]
               ELSE [arena |-> [ar EXCEPT !.pos = (ar.pos + diff) % U64],
                     ptr |-> base, copied |-> 0]
          ELSE [arena |-> new_base.arena, ptr |-> new_base.ptr,
                copied |-> IF new_base.ptr = NULLPTR THEN 0 ELSE old_size]

\* the arguments the memory calls are made with
ArenaCaps == {16, 32}

CallerCaps == {16, 40, 128}

PoolBuckets == 2

PushSizes == {0, 1, 8, U64 - 8}

PopSizes == {0, 8, 20, U64 - 1}

ResizeSizes == {0, 16, U64 - 8}

FileLengths == {0, 30}

Buffers == SeqsUpTo({97, 98}, MaxBytes)

\* the blocks that lie below the position pos: a rewind gives up the others
Below(pos) == {b \in blocks : b.base + b.size <= pos}

Called(op, arg, ptr) == [op |-> op, arg |-> arg, old_pos |-> arena.pos, ptr |-> ptr]

\* The arena calls are followed as long as the position is inside the arena:
\* a position that has left it is where the exploration ends.
InArena == status = "arena" /\ arena.pos <= arena.capacity

\* one more block can be followed
Room == Cardinality(blocks) < MaxBlocks

arena_push_call ==
  /\ InArena
  /\ Room
  /\ \E size \in PushSizes :
       LET r == arena_push(arena, size)
       IN /\ arena' = r.arena
          /\ out' = Called("arena_push", size, r.ptr)
          /\ blocks' = IF r.ptr = NULLPTR THEN blocks
                       ELSE blocks \cup {[base |-> r.ptr, size |-> size]}
  /\ UNCHANGED <<source, s, tokens, status, p, slot, stack, ret, result,
                 pool, heap, interned>>

arena_pop_call ==
  /\ InArena
  /\ \E size \in PopSizes :
       /\ arena' = arena_pop(arena, size)
       /\ out' = Called("arena_pop", size, NULLPTR)
  /\ blocks' = Below(arena'.pos)
  /\ UNCHANGED <<source, s, tokens, status, p, slot, stack, ret, result,
                 pool, heap, interned>>

arena_pop_to_call ==
  /\ InArena
  /\ \E pos \in PopSizes :
       /\ arena' = arena_pop_to(arena, pos)
       /\ out' = Called("arena_pop_to", pos, NULLPTR)
  /\ blocks' = Below(arena'.pos)
  /\ UNCHANGED <<source, s, tokens, status, p, slot, stack, ret, result,
                 pool, heap, interned>>

arena_clear_call ==
  /\ InArena
  /\ arena' = arena_clear(arena)
  /\ out' = Called("arena_clear", 0, NULLPTR)
  /\ blocks' = Below(arena'.pos)
  /\ UNCHANGED <<source, s, tokens, status, p, slot, stack, ret, result,
                 pool, heap, interned>>

arena_push_byte_call ==
  /\ InArena
  /\ Room
  /\ LET r == arena_push_byte(arena)
     IN /\ arena' = r.arena
        /\ out' = Called("arena_push_byte", 1, r.ptr)
        /\ blocks' = IF r.ptr = NULLPTR THEN blocks
                     ELSE blocks \cup {[base |-> r.ptr, size |-> 1]}
  /\ UNCHANGED <<source, s, tokens, status, p, slot, stack, ret, result,
                 pool, heap, interned>>

\* arena_resize of a block handed out and not rewound since, or of no block
arena_resize_call ==
  /\ InArena
  /\ Room
  /\ \E b \in blocks \cup {[base |-> NULLPTR, size |-> 0]} :
       \E new_size \in ResizeSizes :
         LET r == arena_resize(arena, b.base, b.size, new_size)
             block == [base |-> r.ptr, size |-> new_size]
         IN /\ arena' = r.arena
            /\ out' = [op |-> "arena_resize", arg |-> new_size,
                       old_pos |-> arena.pos, ptr |-> r.ptr,
                       base |-> b.base, old_size |-> b.size, copied |-> r.copied]
            /\ blocks' =
                 IF r.ptr = NULLPTR THEN blocks
                 ELSE IF r.ptr = b.base
                 THEN {c \in (blocks \ {b}) \cup {block} : c.base + c.size <= r.arena.pos}
                 ELSE blocks \cup {block}
  /\ UNCHANGED <<source, s, tokens, status, p, slot, stack, ret, result,
                 pool, heap, interned>>

\* a ^ b on unsigned integers
RECURSIVE Xor(_, _)
Xor(a, b) ==
  IF a = 0 THEN b
  ELSE IF b = 0 THEN a
  ELSE ((a + b) % 2) + 2 * Xor(a \div 2, b \div 2)

\* FNV-1a, with its offset basis 8997 and its prime 435 taken at the width of
\* U64
RECURSIVE hash_string(_, _, _, _)
hash_string(str, length, i, hash) ==
  IF i >= length THEN hash
  ELSE hash_string(str, length, i + 1, (Xor(hash, str[i + 1]) * 435) % U64)

\* the bucket array behind a null pointer
NoBuckets == [i \in {} |-> <<>>]

\* pool_init: the bucket array is an arena block
pool_init(ar, capacity) ==
  LET r == arena_push(ar, (sizeof_pointer * capacity) % U64)
  IN [arena |-> r.arena,
      pool |-> [capacity |-> capacity,
                buckets |-> IF r.ptr = NULLPTR THEN NoBuckets
                            ELSE [i \in 0..(capacity - 1) |-> <<>>]]]

\* the first entry of the chain with this length and these bytes, <<>> if none
RECURSIVE Lookup(_, _, _, _)
Lookup(chain, hp, start, length) ==
  IF chain = <<>> THEN <<>>
  ELSE IF /\ Head(chain).length = length
          /\ SubSeq(hp[Head(chain).str], 1, length) = SubSeq(start, 1, length)
       THEN <<Head(chain)>>
       ELSE Lookup(Tail(chain), hp, start, length)

\* Lookup without the test of the length
RECURSIVE LookupBytes(_, _, _, _)
LookupBytes(chain, hp, start, length) ==
  IF chain = <<>> THEN <<>>
  ELSE IF /\ Len(hp[Head(chain).str]) >= length
          /\ SubSeq(hp[Head(chain).str], 1, length) = SubSeq(start, 1, length)
       THEN <<Head(chain)>>
       ELSE LookupBytes(Tail(chain), hp, start, length)

\* pool_intern with a search that does not compare the lengths
pool_intern_no_length(pl, ar, hp, start, length) ==
  LET index == hash_string(start, length, 0, 8997) % pl.capacity
      found == LookupBytes(pl.buckets[index], hp, start, length)
      str == arena_push(ar, (length + 1) % U64)
      entry == arena_push(str.arena, sizeof_StringEntry)
      held == [end |-> "return", pool |-> pl, arena |-> ar, heap |-> hp,
               ptr |-> NULLPTR]
  IN IF DOMAIN pl.buckets = {} THEN [held EXCEPT !.end = "null_read"]
     ELSE IF found # <<>> THEN [held EXCEPT !.ptr = found[1].str]
     ELSE IF str.ptr = NULLPTR THEN [held EXCEPT !.end = "null_write"]
     ELSE IF entry.ptr = NULLPTR
     THEN [held EXCEPT !.end = "null_write", !.arena = str.arena]
     ELSE [end |-> "return",
           pool |-> [pl EXCEPT !.buckets[index] =
                       <<[str |-> str.ptr, length |-> length]>> \o @],
           arena |-> entry.arena,
           heap |-> (str.ptr :> (SubSeq(start, 1, length) \o <<0>>)) @@ hp,
           ptr |-> str.ptr]

\* how the call ends ("return", or a read or a write through the null
\* pointer), the pool, arena and heap it leaves, and the pointer it returns
pool_intern(pl, ar, hp, start, length) ==
  LET index == hash_string(start, length, 0, 8997) % pl.capacity
      found == Lookup(pl.buckets[index], hp, start, length)
      str == arena_push(ar, (length + 1) % U64)
      entry == arena_push(str.arena, sizeof_StringEntry)
      held == [end |-> "return", pool |-> pl, arena |-> ar, heap |-> hp,
               ptr |-> NULLPTR]
  IN IF DOMAIN pl.buckets = {} THEN [held EXCEPT !.end = "null_read"]
     ELSE IF found # <<>> THEN [held EXCEPT !.ptr = found[1].str]
     ELSE IF str.ptr = NULLPTR THEN [held EXCEPT !.end = "null_write"]
     ELSE IF entry.ptr = NULLPTR
     THEN [held EXCEPT !.end = "null_write", !.arena = str.arena]
     ELSE [end |-> "return",
           pool |-> [pl EXCEPT !.buckets[index] =
                       <<[str |-> str.ptr, length |-> length]>> \o @],
           arena |-> entry.arena,
           heap |-> (str.ptr :> (SubSeq(start, 1, length) \o <<0>>)) @@ hp,
           ptr |-> str.ptr]

pool_intern_call ==
  /\ status = "callers"
  /\ \E start \in Buffers :
       \E length \in 0..Len(start) :
         LET r == pool_intern(pool, arena, heap, start, length)
             bytes == SubSeq(start, 1, length)
         IN /\ pool' = r.pool
            /\ arena' = r.arena
            /\ heap' = r.heap
            /\ out' = Called("pool_intern", length, r.ptr)
            /\ status' = IF r.end = "return" THEN status ELSE r.end
            /\ interned' =
                 IF r.end = "return"
                 THEN interned \cup
                        {[bytes |-> bytes, ptr |-> r.ptr,
                          again |-> \E c \in interned : c.bytes = bytes]}
                 ELSE interned
  /\ UNCHANGED <<source, s, tokens, p, slot, stack, ret, result, blocks>>

\* new_expr: e = PUSH_STRUCT(arena, Expr); e->kind = kind
new_expr_call ==
  /\ status = "callers"
  /\ LET r == arena_push(arena, sizeof_Expr)
     IN /\ arena' = r.arena
        /\ out' = Called("new_expr", sizeof_Expr, r.ptr)
        /\ status' = IF r.ptr = NULLPTR THEN "null_write" ELSE status
  /\ UNCHANGED <<source, s, tokens, p, slot, stack, ret, result,
                 pool, heap, blocks, interned>>

\* read_file: buffer = arena_push(length + 1); fread(buffer, 1, length, f);
\* buffer[length] = 0
read_file_call ==
  /\ status = "callers"
  /\ \E length \in FileLengths :
       LET r == arena_push(arena, length + 1)
       IN /\ arena' = r.arena
          /\ out' = Called("read_file", length, r.ptr)
          /\ status' = IF r.ptr = NULLPTR THEN "null_write" ELSE status
  /\ UNCHANGED <<source, s, tokens, p, slot, stack, ret, result,
                 pool, heap, blocks, interned>>

\* parse is handed a token sequence directly: there is no source text
NoSource == <<"(none)">>

InitTokens ==
  /\ source = NoSource
  /\ tokens \in TokenInputs
  /\ status = "ready"

InitSource ==
  /\ source \in Sources
  /\ tokens = <<>>
  /\ status = "lexing"

\* the arena and the pool main creates, and nothing interned yet
Memory(capacity) ==
  LET made == pool_init(arena_create(capacity), PoolBuckets)
  IN /\ arena = made.arena
     /\ pool = made.pool
     /\ heap = [ptr \in {} |-> <<>>]
     /\ out = [op |-> "none", arg |-> 0, old_pos |-> made.arena.pos, ptr |-> NULLPTR]
     /\ blocks = {}
     /\ interned = {}

\* what the parser and the scanner hold before they run
Idle ==
  /\ s = [start |-> 0, current |-> 0, line |-> 1]
  /\ p = [current |-> 0, panic_mode |-> FALSE, had_error |-> FALSE, diags |-> <<>>]
  /\ slot = "unread"
  /\ stack = <<>>
  /\ ret = NULL
  /\ result = [root |-> NULL, success |-> FALSE]

Init ==
  /\ InitTokens \/ InitSource
  /\ Idle
  /\ Memory(200)

\* the memory calls on their own: the arena calls on a fresh arena, or the
\* callers of arena_push on the arena that holds the pool
MemInit ==
  /\ source = NoSource
  /\ tokens = <<>>
  /\ Idle
  /\ \/ /\ status = "arena"
        /\ \E capacity \in ArenaCaps :
             /\ arena = arena_create(capacity)
             /\ pool = [capacity |-> PoolBuckets, buckets |-> NoBuckets]
             /\ heap = [ptr \in {} |-> <<>>]
             /\ out = [op |-> "none", arg |-> 0, old_pos |-> ARENA_BASE_POS, ptr |-> NULLPTR]
             /\ blocks = {}
             /\ interned = {}
     \/ /\ status = "callers"
        /\ \E capacity \in CallerCaps : Memory(capacity)

Next ==
  \/ tokenize_loop
  \/ tokenize_return
  \/ parse_start
  \/ read_slot
  \/ ExprNext
  \/ TypeNext
  \/ DeclNext
  \/ StmtNext
  \/ parse_return

Spec == Init /\ [][Next]_vars

MemNext ==
  \/ arena_push_call
  \/ arena_pop_call
  \/ arena_pop_to_call
  \/ arena_clear_call
  \/ arena_push_byte_call
  \/ arena_resize_call
  \/ pool_intern_call
  \/ new_expr_call
  \/ read_file_call

MemSpec == MemInit /\ [][MemNext]_vars


\* the steps of parse; main calls parse once and lets it run
ParserSteps ==
  \/ parse_start
  \/ read_slot
  \/ ExprNext
  \/ TypeNext
  \/ DeclNext
  \/ StmtNext
  \/ parse_return

\* a parser step that can be taken is eventually taken: the program keeps
\* running
FairSpec == Spec /\ WF_vars(ParserSteps)

(***************************************************************************)
(* Properties                                                              *)
(***************************************************************************)
Done(ws) == status = "done" /\ tokens = Prog(ws)

\* the expression of the only statement of the tree parse returned
OnlyExpression == result.root.stmts[1].expression

Var(w) == [kind |-> "EXPR_VARIABLE", variable |-> <<w>>]

\* the operator each binary operator token stands for (spec 3.3)
DeclaredOp(w) ==
  CASE w = "+" -> OP_ADD [] w = "-" -> OP_SUB [] w = "*" -> OP_MUL
    [] w = "/" -> OP_DIV [] w = "%" -> OP_MOD [] w = "^" -> OP_POW
    [] w = ".." -> OP_CONCAT [] w = "==" -> OP_EQ [] w = "~=" -> OP_NEQ
    [] w = "<" -> OP_LT [] w = "<=" -> OP_LTE [] w = ">" -> OP_GT
    [] w = ">=" -> OP_GTE [] w = "and" -> OP_AND [] w = "or" -> OP_OR

DeclaredUnaryOp(w) ==
  CASE w = "-" -> OP_NEGATE [] w = "not" -> OP_NOT [] w = "#" -> OP_LEN

\* the level of each binary operator in OR < AND < COMPARISON < CONCAT < TERM
\* < FACTOR < POW
Level(w) ==
  CASE w = "or" -> 1
    [] w = "and" -> 2
    [] w \in {"==", "~=", "<", "<=", ">", ">="} -> 3
    [] w = ".." -> 4
    [] w \in {"+", "-"} -> 5
    [] w \in {"*", "/", "%"} -> 6
    [] w = "^" -> 7

ParsesTo(ws, e) ==
  Done(ws) => /\ result.success
              /\ result.root = Block(<<[kind |-> "STMT_EXPR", expression |-> e]>>)

\* C1: for every source text, the empty one included, tokenize returns a
\* non-null token sequence with exactly one EOF token, which is its last
\* element.
C1_OneEofLast ==
  (status = "ready" /\ source # NoSource) =>
    /\ tokens # <<>>
    /\ tokens[Len(tokens)].kind = "TOKEN_EOF"
    /\ \A i \in 1..(Len(tokens) - 1) : tokens[i].kind # "TOKEN_EOF"

\* C2: in every state reached during parse the cursor does not exceed the
\* index of the EOF token, the last token.
C2_CursorWithinTokens ==
  status \in {"parsing", "done"} => p.current <= count - 1

\* C3: parse terminates: a parse that has started and keeps its cursor within
\* the token sequence comes to an end, no loop repeats forever on the same
\* token.
C3_ParseTerminates ==
  (status = "parsing") ~> (status # "parsing" \/ slot # "unread")

\* C4: when the token sequence holds an ERROR token, parse returns
\* success = false.
C4_ErrorTokenFails ==
  (status = "done" /\ \E i \in 1..Len(tokens) : tokens[i].kind = "TOKEN_ERROR")
    => ~result.success

\* C5: panic mode is left at a statement boundary: whenever the parser
\* begins a statement right after a ; the flag panic_mode is clear, so that
\* an error in this statement gets its own diagnostic.
C5_PanicClearedAtStatement ==
  ( /\ status = "parsing"
    /\ stack # <<>>
    /\ Top.fn = "parse_statement"
    /\ p.current >= 1
    /\ p.current <= count
    /\ previous(p).kind = "TOKEN_SEMICOLON" )
    => ~p.panic_mode

\* C6: x op y op z parses as Binary(op, x, Binary(op, y, z)) when op is ^ or
\* .., and as Binary(op, Binary(op, x, y), z) for every other binary operator.
C6_Associativity ==
  \A o \in BinaryWords :
    ParsesTo(<<"x", o, "y", o, "z", ";">>,
             IF o \in {"^", ".."}
             THEN Binary(DeclaredOp(o), Var("x"),
                         Binary(DeclaredOp(o), Var("y"), Var("z")))
             ELSE Binary(DeclaredOp(o),
                         Binary(DeclaredOp(o), Var("x"), Var("y")), Var("z")))

\* C7: when op2 is on a strictly higher level than op1, x op1 y op2 z parses
\* as Binary(op1, x, Binary(op2, y, z)) and x op2 y op1 z parses as
\* Binary(op1, Binary(op2, x, y), z).
C7_Precedence ==
  \A o1 \in BinaryWords, o2 \in BinaryWords :
    Level(o2) > Level(o1) =>
      /\ ParsesTo(<<"x", o1, "y", o2, "z", ";">>,
                  Binary(DeclaredOp(o1), Var("x"),
                         Binary(DeclaredOp(o2), Var("y"), Var("z"))))
      /\ ParsesTo(<<"x", o2, "y", o1, "z", ";">>,
                  Binary(DeclaredOp(o1),
                         Binary(DeclaredOp(o2), Var("x"), Var("y")), Var("z")))

\* C8: u a op b parses as Binary(op, Unary(u, a), b) for every binary op
\* except ^, and u a ^ b parses as Unary(u, Binary(^, a, b)).
C8_UnaryBinding ==
  \A u \in UnaryWords, o \in BinaryWords :
    ParsesTo(<<u, "a", o, "b", ";">>,
             IF o = "^"
             THEN Unary(DeclaredUnaryOp(u), Binary(OP_POW, Var("a"), Var("b")))
             ELSE Binary(DeclaredOp(o), Unary(DeclaredUnaryOp(u), Var("a")),
                         Var("b")))

NotAEqB == <<"not", "a", "==", "b", ";">>

\* C9 as stated: not a == b parses as Unary(not, Binary(==, a, b)).
C9_Original ==
  ParsesTo(NotAEqB, Unary(OP_NOT, Binary(OP_EQ, Var("a"), Var("b"))))

\* C9 amended: not a == b parses as a Binary node whose left operand is
\* Unary(not, a) and whose right operand is b.
C9_NotBindsTighter ==
  Done(NotAEqB) =>
    /\ result.success
    /\ Len(result.root.stmts) = 1
    /\ result.root.stmts[1].kind = "STMT_EXPR"
    /\ OnlyExpression.kind = "EXPR_BINARY"
    /\ OnlyExpression.left = Unary(OP_NOT, Var("a"))
    /\ OnlyExpression.right = Var("b")

C9_Witness == Done(NotAEqB) /\ result.success

\* C10: every Binary node the parser builds carries one of the 15 declared
\* binary operators.
C10_BinaryOpDeclared ==
  ( /\ status = "parsing"
    /\ stack # <<>>
    /\ Top.fn = "parse_precedence"
    /\ Top.pc = "after_infix"
    /\ ret.kind = "EXPR_BINARY" )
    => ret.op \in OP_ADD..OP_OR

\* the kind the four bracket characters stand for (spec 4.2)
BracketKind(c) ==
  CASE c = "(" -> "TOKEN_LPAREN" [] c = ")" -> "TOKEN_RPAREN"
    [] c = "{" -> "TOKEN_LBRACE" [] c = "}" -> "TOKEN_RBRACE"

\* C11: every token tokenize makes of one of the four bracket characters has
\* the kind of that bracket: ( LPAREN, ) RPAREN, { LBRACE, } RBRACE.
C11_BracketKinds ==
  (status = "ready" /\ source # NoSource) =>
    \A i \in 1..Len(tokens) :
      ( /\ tokens[i].kind \notin {"TOKEN_STRING", "TOKEN_ERROR", "TOKEN_EOF"}
        /\ tokens[i].text \in {<<"(">>, <<")">>, <<"{">>, <<"}">>} )
        => tokens[i].kind = BracketKind(tokens[i].text[1])

\* the position x rounded up to the multiple of the machine word, 8 bytes
WordAligned(x) == CHOOSE m \in x..(x + 7) : m % 8 = 0

Overlap(b, c) == b.base < c.base + c.size /\ c.base < b.base + b.size

\* C13: arena_push(size), with p the position rounded up to the word: if
\* p + size > capacity it returns null and leaves the position; otherwise it
\* returns the block at p, sets the position to p + size, and the block
\* overlaps no block handed out and not rewound since.
C13_ArenaPush ==
  (status = "arena" /\ out.op = "arena_push") =>
    LET pa == WordAligned(out.old_pos)
        block == [base |-> out.ptr, size |-> out.arg]
    IN IF pa + out.arg > arena.capacity
       THEN out.ptr = NULLPTR /\ arena.pos = out.old_pos
       ELSE /\ out.ptr = pa
            /\ arena.pos = pa + out.arg
            /\ \A b \in blocks \ {block} : ~Overlap(b, block)

\* the entries of the pool, each with the bucket and the place it has
Entries ==
  UNION {{[bucket |-> i, place |-> k] : k \in 1..Len(pool.buckets[i])} :
           i \in DOMAIN pool.buckets}

EntryAt(e) == pool.buckets[e.bucket][e.place]

\* C12: of the pool_intern calls made on one pool, two with equal bytes
\* returned the same pointer and two with different bytes different
\* pointers; every pointer returned still denotes the bytes of its call
\* followed by NUL; the pool holds one entry per content.
C12_InternStable ==
  /\ \A c \in interned, d \in interned : (c.bytes = d.bytes) <=> (c.ptr = d.ptr)
  /\ \A c \in interned : c.ptr \in DOMAIN heap /\ heap[c.ptr] = c.bytes \o <<0>>
  /\ \A e \in Entries, f \in Entries :
       e # f => heap[EntryAt(e).str] # heap[EntryAt(f).str]

\* two contents are interned, one of them twice, and a bucket chains two
C12_Witness ==
  /\ status = "callers"
  /\ \E c \in interned : c.again
  /\ \E c \in interned, d \in interned : c.ptr # d.ptr
  /\ \E i \in DOMAIN pool.buckets : Len(pool.buckets[i]) >= 2

\* C14: when arena_push returns null, its callers pool_intern, new_expr and
\* read_file do not store through the null pointer.
C14_NullChecked == status # "null_write"

\* an If, and every If down its else chain, has no else_branch, a Block, or
\* a further If
RECURSIVE ElseChainShape(_)
ElseChainShape(node) ==
  /\ node.else_branch.kind \in {"NULL", "STMT_BLOCK", "STMT_IF"}
  /\ node.else_branch.kind = "STMT_IF" => ElseChainShape(node.else_branch)

IfElseifElse ==
  <<"if", "a", "then", "b", "(", ")", ";", "elseif", "c", "then", "d", "(", ")", ";",
    "else", "e", "(", ")", ";", "end">>

TwoElseifs ==
  <<"if", "a", "then", "elseif", "b", "then", "elseif", "c", "then", "else", "x", ";", "end">>

\* C15: every If statement the parser returns has as else_branch nothing, a
\* Block or a further If; in an if / elseif / else chain each elseif is the
\* else_branch of the If before it and the else Block is the else_branch of
\* the last If of the chain.
C15_ElseChain ==
  /\ ( /\ status = "parsing"
       /\ stack # <<>>
       /\ Top.fn = "parse_block"
       /\ Top.pc = "after_stmt"
       /\ ret.kind = "STMT_IF" ) => ElseChainShape(ret)
  /\ Done(TwoElseifs) =>
       /\ result.success
       /\ result.root =
            Block(<<If(Var("a"), Block(<<>>),
                       If(Var("b"), Block(<<>>),
                          If(Var("c"), Block(<<>>),
                             Block(<<[kind |-> "STMT_EXPR",
                                      expression |-> Var("x")]>>))))>>)
  /\ Done(IfElseifElse) =>
       LET first == result.root.stmts[1]
           second == first.else_branch
       IN /\ result.success
          /\ Len(result.root.stmts) = 1
          /\ first.kind = "STMT_IF" /\ first.condition = Var("a")
          /\ Len(first.then_branch.stmts) = 1
          /\ second.kind = "STMT_IF" /\ second.condition = Var("c")
          /\ Len(second.then_branch.stmts) = 1
          /\ second.else_branch.kind = "STMT_BLOCK"
          /\ Len(second.else_branch.stmts) = 1

C15_Witness == Done(TwoElseifs) /\ result.success

\* the only statement of the tree parse returned
OnlyStatement == result.root.stmts[1]

\* parse made of the words ws an impl whose names and arguments are these
ImplOf(ws, trait_name, trait_args, target_name, target_args) ==
  Done(ws) =>
    /\ result.success
    /\ Len(result.root.stmts) = 1
    /\ OnlyStatement.kind = "STMT_IMPL"
    /\ OnlyStatement.trait_name = trait_name
    /\ OnlyStatement.trait_args = trait_args
    /\ OnlyStatement.target_name = target_name
    /\ OnlyStatement.target_args = target_args

ImplFor ==
  <<"impl", "<", "T", ">", "A", "<", "T", ",", "U", ">", "for", "B", "<", "T", ">", "end">>

\* the tokens hold a for ahead of the first function of the impl body
HasForClause ==
  \E i \in 1..Len(tokens) :
    /\ tokens[i].kind = "TOKEN_FOR"
    /\ \A j \in 1..i : tokens[j].kind # "TOKEN_FUNCTION"

\* C16: an impl has a trait_name exactly when it has a for clause; with the
\* clause the first name and its type arguments are the trait and the second
\* name and its arguments the target; without it the single name and its
\* arguments are the target and trait_args is empty.
C16_ImplNames ==
  /\ ( /\ status = "done"
       /\ result.success
       /\ Len(result.root.stmts) = 1
       /\ OnlyStatement.kind = "STMT_IMPL" ) =>
         /\ (OnlyStatement.trait_name # NULLSTR)
              <=> HasForClause
         /\ OnlyStatement.trait_name = NULLSTR => OnlyStatement.trait_args = <<>>
  /\ ImplOf(ImplFor,
            <<"A">>, <<UserType(<<"T">>, <<>>), UserType(<<"U">>, <<>>)>>,
            <<"B">>, <<UserType(<<"T">>, <<>>)>>)
  /\ ImplOf(<<"impl", "Show", "for", "Point", "function", "r", "(", "s", ":", "Point", ")",
              ":", "string", "return", "'s'", ";", "end", "end">>,
            <<"S", "h", "o", "w">>, <<>>, <<"P", "o", "i", "n", "t">>, <<>>)
  /\ ImplOf(<<"impl", "A", "<", "T", ">", "end">>,
            NULLSTR, <<>>, <<"A">>, <<UserType(<<"T">>, <<>>)>>)
  /\ ImplOf(<<"impl", "A", "function", "f", "(", ")", "end",
              "function", "g", "(", ")", "end", "end">>,
            NULLSTR, <<>>, <<"A">>, <<>>)

C16_Witness ==
  /\ Done(ImplFor)
  /\ result.success
  /\ OnlyStatement.kind = "STMT_IMPL"
  /\ OnlyStatement.trait_name = <<"A">>

Whitespace == {" ", "\t", "\r", "\n"}

\* the source holds whitespace and comments only
BlankSource ==
  /\ source # NoSource
  /\ \/ \A i \in 1..Len(source) : source[i] \in Whitespace
     \/ source = <<" ", "-", "-", "c", "\n", "\t", "\r">>
     \/ source = <<"-", "-", "[", "[", "c", "]", "]", " ", "-", "-", "c">>

\* C17: for a source of zero or more whitespace characters and comments,
\* tokenize followed by parse reads nothing outside the token array and
\* yields a root Block with no statement and success = true.
C17_BlankSource ==
  BlankSource =>
    /\ status \notin {"crashed", "undefined"}
    /\ slot = "unread"
    /\ status = "done" => result = [root |-> Block(<<>>), success |-> TRUE]

\* the claim of C17 for the blank sources of one character or more
C17_NonEmptyBlank ==
  (BlankSource /\ source # <<>>) => C17_BlankSource

\* C18: a source that is a single ; at top level parses to a root Block
\* with no statement and success = true.
C18_LoneSemicolon ==
  (status = "done" /\ source = <<";">>) =>
    result = [root |-> Block(<<>>), success |-> TRUE]

\* C19: local x = 1; and local x; parse with success = true to a Local whose
\* first declaration has a null type, while a function parameter and a
\* struct field without ": type" are syntax errors.
C19_OptionalLocalType ==
  /\ \A ws \in {<<"local", "x", "=", "1", ";">>, <<"local", "x", ";">>} :
       Done(ws) =>
         /\ result.success
         /\ Len(result.root.stmts) = 1
         /\ OnlyStatement.kind = "STMT_LOCAL"
         /\ OnlyStatement.decls[1].name = <<"x">>
         /\ OnlyStatement.decls[1].type = NULL
  /\ \A ws \in {<<"function", "f", "(", "a", ")", "end">>, <<"struct", "P", "x", "end">>} :
       Done(ws) => ~result.success

\* the second half of C19: a parameter and a field need their type
C19_ParamNeedsType ==
  \A ws \in {<<"function", "f", "(", "a", ")", "end">>, <<"struct", "P", "x", "end">>} :
    Done(ws) => ~result.success

\* the type of x in the finished parse of TypeSource(t)
TypeOfX == OnlyStatement.decls[1].type

\* C20: in type position each of void, nil, bool, number and string, as
\* lexed from source text, parses without error to its primitive type, and
\* any other identifier to a user type with that name and its <...> arguments.
C20_TypeNames ==
  /\ \A t \in PrimitiveNames :
       (status = "done" /\ source = TypeSource(t)) =>
         /\ result.success
         /\ TypeOfX = [kind |-> PrimitiveType(t)]
  /\ (status = "done" /\ source = TypeSource(<<"n", "i", "l", "s">>)) =>
         /\ result.success
         /\ TypeOfX = UserType(<<"n", "i", "l", "s">>, <<>>)
  /\ (status = "done" /\ source = TypeSource(<<"P", "<", "a", ",", "b", ">">>)) =>
         /\ result.success
         /\ TypeOfX = UserType(<<"P">>, <<UserType(<<"a">>, <<>>), UserType(<<"b">>, <<>>)>>)

\* the claim of C20 for every name but nil
C20_ButNil ==
  source # TypeSource(<<"n", "i", "l">>) => C20_TypeNames

\* tokenize has returned for the source src
Lexed(src) == status = "ready" /\ source = src

\* the first token is a STRING with this text
FirstIsString(text) ==
  /\ tokens # <<>>
  /\ tokens[1].kind = "TOKEN_STRING"
  /\ tokens[1].text = text

\* C21: a long-bracket string of level n ends at the first ] followed by
\* exactly n = and ]; closers of another level are content; the token is one
\* STRING holding the bytes between opener and closer, less one newline right
\* after the opener; without a matching closer the token is an ERROR.
C21_LongString ==
  /\ Lexed(<<"[", "[", "a", "]", "]">>) => FirstIsString(<<"a">>)
  /\ Lexed(<<"[", "=", "[", "s", "]", "=", "]", ".", ".", ".">>) => FirstIsString(<<"s">>)
  /\ Lexed(<<"[", "=", "=", "[", "a", "]", "=", "]", "]", "]", "=", "=", "]", ";">>)
       => /\ FirstIsString(<<"a", "]", "=", "]", "]">>)
          /\ tokens[2].kind = "TOKEN_SEMICOLON"
  /\ Lexed(<<"[", "[", "\n", "\n", "a", "]", "]", ";">>) => FirstIsString(<<"\n", "a">>)
  /\ Lexed(<<"[", "=", "[", "a", "]", "]", ";">>) => tokens[1].kind = "TOKEN_ERROR"

\* the claim of C21 for the long strings that do not end the source
C21_ClosedBeforeEnd ==
  source # <<"[", "[", "a", "]", "]">> => C21_LongString

RECURSIVE Decimal(_)
\* the number the digits ds write
Decimal(ds) ==
  IF ds = <<>> THEN 0
  ELSE 10 * Decimal(SubSeq(ds, 1, Len(ds) - 1)) + Digit(ds[Len(ds)])

\* the bytes the claim gives a backslash followed by the digits ds: one byte
\* for the first three digits, then the fourth digit as it stands
EscapeBytes(ds) ==
  IF Len(ds) <= 3 THEN <<Chr(Decimal(ds))>>
  ELSE <<Chr(Decimal(SubSeq(ds, 1, 3)))>> \o SubSeq(ds, 4, Len(ds))

\* C22: in a quoted string a backslash followed by one to three decimal
\* digits gives exactly one byte whose value is the number the digits write,
\* for every digit sequence 0..999; a fourth digit is ordinary content.
C22_DecimalEscape ==
  \A ds \in EscapeDigits :
    Lexed(EscapeSource(ds)) => FirstIsString(EscapeBytes(ds))

\* the claim of C22 for the digit sequences that write at most 255
C22_UpTo255 ==
  \A ds \in EscapeDigits :
    (Lexed(EscapeSource(ds)) /\ Decimal(SubSeq(ds, 1, MIN(3, Len(ds)))) <= 255)
      => FirstIsString(EscapeBytes(ds))

\* the newlines among the first n characters of the source
NewlinesBefore(n) == Cardinality({i \in 1..n : source[i] = "\n"})

\* C23: the line counter starts at 1 and goes up by exactly one for every
\* newline the scanner consumes, wherever it stands; hence the lines of the
\* tokens emitted never decrease.
C23_LineCounter ==
  (source # NoSource /\ status \in {"lexing", "lexed", "ready"}) =>
    /\ s.line = 1 + NewlinesBefore(s.current)
    /\ \A i \in 1..Len(tokens) : \A j \in i..Len(tokens) :
         tokens[i].line <= tokens[j].line

C23_Witness ==
  /\ Lexed(LinesSource)
  /\ s.line = 8
  /\ Len(tokens) = 4
  /\ tokens[1].line = 6
  /\ tokens[2].line = 8

\* the positions from a to b of the tokens that hold a token of this kind
Positions(kind, a, b) == {i \in a..b : tokens[i].kind = kind}

\* the tokens are one statement that starts with no statement keyword, ends
\* with the only ; and has no bracket, call or block terminator in it, so that
\* every comma separates two elements of its lists
PlainLists ==
  /\ status = "done"
  /\ count >= 3
  /\ statement_fn(tokens[1].kind) = "expression_or_assignment"
  /\ Positions("TOKEN_SEMICOLON", 1, count) = {count - 1}
  /\ \A i \in 1..(count - 1) :
       /\ ~is_block_end(tokens[i].kind)
       /\ tokens[i].kind \notin
            {"TOKEN_LPAREN", "TOKEN_LBRACK", "TOKEN_LBRACE", "TOKEN_FUNCTION", "TOKEN_ERROR"}

\* the position of the first = of the statement
FirstEq == CHOOSE i \in Positions("TOKEN_EQ", 1, count) :
             \A j \in Positions("TOKEN_EQ", 1, count) : i <= j

\* C24: a statement that starts with no statement keyword parses a list of
\* expressions; with = after it the result is an Assign whose target and
\* value counts are the lengths of the two lists; without =, a list of one
\* expression followed by ; is an ExprStmt and a longer list sets had_error.
C24_ExpressionList ==
  /\ (PlainLists /\ result.success /\ Positions("TOKEN_EQ", 1, count) # {}) =>
       /\ Len(result.root.stmts) = 1
       /\ OnlyStatement.kind = "STMT_ASSIGN"
       /\ Len(OnlyStatement.targets) = Cardinality(Positions("TOKEN_COMMA", 1, FirstEq)) + 1
       /\ Len(OnlyStatement.values) = Cardinality(Positions("TOKEN_COMMA", FirstEq, count)) + 1
  /\ (PlainLists /\ Positions("TOKEN_EQ", 1, count) = {}) =>
       IF Positions("TOKEN_COMMA", 1, count) = {}
       THEN result.success => /\ Len(result.root.stmts) = 1
                              /\ OnlyStatement.kind = "STMT_EXPR"
       ELSE p.had_error /\ ~result.success

C24_Witness ==
  /\ Done(<<"x", ",", "y", ",", "z", "=", "1", ";">>)
  /\ result.success
  /\ OnlyStatement.kind = "STMT_ASSIGN"
  /\ Len(OnlyStatement.targets) = 3
  /\ Len(OnlyStatement.values) = 1

\* a longer list without = has been parsed
C24_ListWithoutEq ==
  /\ Done(<<"x", ",", "y", ";">>)
  /\ p.had_error

\* what the claim of C25 says of consume(q, kind, msg)
ConsumeContract(q, kind) ==
  LET r == consume(q, kind, "msg")
  IN IF peek(q).kind = kind
     THEN /\ r.current = q.current + 1
          /\ r.panic_mode = q.panic_mode
          /\ r.had_error = q.had_error
          /\ r.diags = q.diags
     ELSE /\ r.current = q.current
          /\ r.had_error
          /\ r.panic_mode
          /\ r.diags = IF q.panic_mode THEN q.diags
                       ELSE Append(q.diags, [text |-> peek(q).text, msg |-> "msg"])

\* the parser is running and the token under its cursor has a value
CanPeek == status = "parsing" /\ (p.current < count \/ slot # "unread")

\* C25: consume(kind) moves the cursor on by exactly one and leaves
\* panic_mode and had_error alone when the current token has the expected
\* kind; otherwise it leaves the cursor, sets had_error and panic_mode, and
\* emits a diagnostic only if panic_mode was false.
C25_Consume ==
  CanPeek => \A kind \in TokenKinds : ConsumeContract(p, kind)

\* the claim of C25 while the cursor is on a token of the sequence
C25_ConsumeWithinTokens ==
  (CanPeek /\ p.current < count) => \A kind \in TokenKinds : ConsumeContract(p, kind)

\* arena_resize has returned from a call on a block that lies in the arena
Resized ==
  /\ status = "arena"
  /\ out.op = "arena_resize"
  /\ out.base >= ARENA_BASE_POS
  /\ out.base + out.old_size <= out.old_pos
  /\ out.old_pos <= arena.capacity

\* every block followed lies between the header and the capacity
BlocksInArena ==
  \A c \in blocks : ARENA_BASE_POS <= c.base /\ c.base + c.size <= arena.capacity

\* what the claim of C26 says of the call that has returned
ResizeContract ==
  LET grown == out.old_pos + out.arg - out.old_size
      pa == WordAligned(out.old_pos)
      block == [base |-> out.ptr, size |-> out.arg]
      exhausted == /\ out.ptr = NULLPTR
                   /\ arena.pos = out.old_pos
                   /\ [base |-> out.base, size |-> out.old_size] \in blocks
  IN IF out.base + out.old_size = out.old_pos
     THEN IF grown <= arena.capacity
          THEN /\ out.ptr = out.base
               /\ arena.pos = grown
               /\ out.copied = 0
          ELSE exhausted
     ELSE IF pa + out.arg <= arena.capacity
          THEN /\ out.ptr = pa
               /\ arena.pos = pa + out.arg
               /\ \A c \in blocks \ {block} : ~Overlap(c, block)
               /\ out.copied = out.old_size
          ELSE exhausted

\* C26: arena_resize of a block that ends at the bump position, when the
\* growth fits, returns the block itself and raises the position by
\* new_size - old_size without a copy; of a block that is not the last it
\* returns a fresh block with a copy of the first old_size bytes; on
\* exhaustion it returns null and leaves the position and the old block.
C26_ArenaResize == Resized => ResizeContract

\* the claim of C26 for the new sizes that do not exceed the capacity
C26_SizesWithinCapacity ==
  (Resized /\ BlocksInArena /\ out.arg <= arena.capacity) => ResizeContract

\* the copy made into a fresh block stays inside that block
C26_CopyWithinBlock ==
  (Resized /\ out.copied > 0) => out.copied <= out.arg

Rewinds == {"arena_pop", "arena_pop_to", "arena_clear"}

\* C27: after any sequence of arena_push, arena_push_byte, arena_resize,
\* arena_pop, arena_pop_to and arena_clear with arbitrary sizes and positions
\* the position lies between the header size and the capacity; arena_pop,
\* arena_pop_to and arena_clear never raise it, and arena_clear leaves it at
\* the header size.
C27_PositionInRange ==
  status = "arena" =>
    /\ ARENA_BASE_POS <= arena.pos
    /\ arena.pos <= arena.capacity
    /\ out.op \in Rewinds => arena.pos <= out.old_pos
    /\ out.op = "arena_clear" => arena.pos = ARENA_BASE_POS

\* the claim of C27 for a rewind that starts from a position in the range
C27_RewindInRange ==
  ( /\ status = "arena"
    /\ out.op \in Rewinds
    /\ ARENA_BASE_POS <= out.old_pos
    /\ out.old_pos <= arena.capacity ) =>
      /\ ARENA_BASE_POS <= arena.pos
      /\ arena.pos <= out.old_pos
      /\ out.op = "arena_clear" => arena.pos = ARENA_BASE_POS

\* C28: for every source the scanner's current position never moves past the
\* terminating NUL, also inside a quoted string whose last character before
\* the end of input is a backslash.
C28_ScannerWithinSource ==
  source # NoSource => /\ s.current <= Len(source)
                       /\ status # "undefined"

\* the claim of C28 for the sources that do not end in a backslash
C28_NoTrailingBackslash ==
  (source # NoSource /\ source # <<>> /\ source[Len(source)] # "\\")
    => /\ s.current <= Len(source)
       /\ status # "undefined"

\* C29: whenever parse returns success = true the cursor is on the EOF token:
\* every token before it was consumed into the tree, and a stray end, else,
\* elseif or until at top level cannot leave tokens unparsed.
C29_SuccessAtEof ==
  (status = "done" /\ result.success) =>
    /\ p.current = count - 1
    /\ tokens[count].kind = "TOKEN_EOF"

\* the claim of C29 for the inputs that hold no end, else, elseif or until
C29_NoBlockTerminator ==
  ( /\ status = "done"
    /\ result.success
    /\ \A i \in 1..(count - 1) : ~is_block_end(tokens[i].kind) ) =>
      p.current = count - 1

\* TypeAlias(A, Array(Array(Number)))
AliasOfNestedArray ==
  [kind |-> "STMT_TYPE_ALIAS", name |-> <<"A">>,
   type |-> [kind |-> "TYPE_ARRAY",
             inner |-> [kind |-> "TYPE_ARRAY", inner |-> [kind |-> "TYPE_NUMBER"]]]]

\* C30: type A = [[number]]; goes through lexer and parser to
\* TypeAlias(A, Array(Array(Number))) with success = true: its two adjacent [
\* reach the type parser as two LBRACK tokens and are not taken as the opener
\* of a long-bracket string.
C30_NestedArrayType ==
  /\ Lexed(NestedArraySource) =>
       /\ Len(tokens) >= 5
       /\ tokens[4].kind = "TOKEN_LBRACK"
       /\ tokens[5].kind = "TOKEN_LBRACK"
  /\ (status = "done" /\ source = NestedArraySource) =>
       result = [root |-> Block(<<AliasOfNestedArray>>), success |-> TRUE]

\* the same type with a space between the two [ parses as C30 says
C30_SpacedArrayType ==
  (status = "done" /\ source = SpacedArraySource) =>
    result = [root |-> Block(<<AliasOfNestedArray>>), success |-> TRUE]

====
